---- MODULE Spec2Model ----
(***************************************************************************)
(* The lyrics-to-timestamp alignment engine of backend/lyrics_video_app.py *)
(* (word_similarity, dtw_align, segment_based_alignment,                   *)
(* LyricsAligner.align_lyrics and LyricsAligner._post_process_timing) and  *)
(* the project store of backend/projects.py (ProjectManager), called by    *)
(* one caller and by the threads of the server.                            *)
(*                                                                         *)
(* Numbers.  The program computes times, similarities and confidences in   *)
(* floating point.  They are modelled as exact rationals <<num, den>> in   *)
(* lowest terms with den > 0, so 0.35 is <<7, 20>>.  Rounding is modelled  *)
(* where it decides an index: int((i / n_lines) * n_segments) is computed  *)
(* as the 53-bit floating-point unit computes it (ExpectedSegment).        *)
(* Text.  A string is a sequence of one-character strings, so that         *)
(* strip(), split(), lower() and re.sub() are computed character by        *)
(* character.                                                              *)
(* Files.  A directory is a function from the names of its files to what   *)
(* they hold.                                                              *)
(***************************************************************************)
EXTENDS Integers, Sequences, FiniteSets, TLC

VARIABLES
    pc,                 \* position of the modelled call: "start", then the name of the last call made
    timed_lines,        \* list[TimedLine]: the list _post_process_timing mutates in place
    duration,           \* audio duration passed to the call
    before,             \* copy of timed_lines taken when the last _post_process_timing call began
    twin_lines,         \* a second run of the repair pass on a list differing in one line
    changed_line,       \* index of the line in which twin_lines differs from the first run's input
    lyrics_words,       \* dtw_align: lyrics_words
    transcribed_words,  \* dtw_align: transcribed_words (dicts word/start/end/score)
    similarity_threshold, \* dtw_align: similarity_threshold
    alignments,         \* dtw_align: returned list of (lyrics_idx, transcribed_idx, similarity)
    backtracked,        \* dtw_align: the cells (i, j) its backtracking loop went through
    lyrics_lines,       \* segment_based_alignment: lyrics_lines
    segments,           \* recognizer segments (dicts text/start/end/words)
    line_timings,       \* segment_based_alignment: returned list of (line_idx, start, end)
    raw_lines,          \* the lines the lyric text was typed as
    lyrics_text,        \* align_lyrics: lyrics_text
    result,             \* align_lyrics: returned LyricsTimingData; the document to_json saves
    arg_word1,          \* word_similarity: the argument word1
    arg_word2,          \* word_similarity: the argument word2
    similarity,         \* word_similarity: returned value
    saved,              \* the JSON value to_json wrote to the file at `path`
    loaded,             \* from_json: returned LyricsTimingData
    projects_dir,       \* ProjectManager: the project directories in self.projects_dir
    index_file,         \* ProjectManager: what self.index_file (projects.json) holds
    upload_folder,      \* the job directories of the upload folder
    clock,              \* the last time datetime.utcnow() gave
    called,             \* the last ProjectManager call of the single caller and what it gave
    requests            \* the requests the server's threads are handling, each with its position

vars ==
    <<pc, timed_lines, duration, before, twin_lines, changed_line, lyrics_words,
      transcribed_words, similarity_threshold, alignments, backtracked,
      lyrics_lines, segments, line_timings, raw_lines, lyrics_text, result,
      arg_word1, arg_word2, similarity, saved, loaded, projects_dir, index_file,
      upload_folder, clock, called, requests>>

\* Python's None.
None == <<>>

-----------------------------------------------------------------------------
\* Exact arithmetic standing for Python floats.

Abs(x) == IF x < 0 THEN -x ELSE x

RECURSIVE GCD(_, _)
GCD(a, b) == IF b = 0 THEN a ELSE GCD(b, a % b)

\* The rational n/d (d > 0) in lowest terms.
R(n, d) ==
    IF n = 0 THEN <<0, 1>>
    ELSE LET g == GCD(Abs(n), d) IN <<n \div g, d \div g>>

Zero == <<0, 1>>
One == <<1, 1>>
RInt(k) == <<k, 1>>

RAdd(a, b) == R(a[1] * b[2] + b[1] * a[2], a[2] * b[2])
RSub(a, b) == R(a[1] * b[2] - b[1] * a[2], a[2] * b[2])
RMul(a, b) == R(a[1] * b[1], a[2] * b[2])
\* a / b for b # 0
RDiv(a, b) ==
    IF b[1] > 0 THEN R(a[1] * b[2], a[2] * b[1])
    ELSE R(-(a[1] * b[2]), a[2] * (-b[1]))
RLt(a, b) == a[1] * b[2] < b[1] * a[2]
RLe(a, b) == a[1] * b[2] <= b[1] * a[2]
\* Python's max(a, b) and min(a, b): the first argument wins a tie.
RMax(a, b) == IF RLt(a, b) THEN b ELSE a
RMin(a, b) == IF RLt(b, a) THEN b ELSE a

-----------------------------------------------------------------------------
\* TimedWord and TimedLine (dataclasses).

TimedWord(w, s, e, c) == [word |-> w, start |-> s, end |-> e, confidence |-> c]
TimedLine(t, s, e, ws) == [text |-> t, start |-> s, end |-> e, words |-> ws]

-----------------------------------------------------------------------------
\* LyricsAligner._post_process_timing

AVG_WORD_DURATION == R(35, 100)
GAP_BETWEEN_WORDS == R(8, 100)
MAX_LINE_DURATION == RInt(8)

\* The locals of _post_process_timing that live across iterations of the
\* loop over the lines (Python locals have function scope).
NoLocals == [current_time |-> None, word_prev_end |-> None]

\* Lines 686-690: the loop of the broken-line branch, from word k on.
\* Returns the re-estimated words and the final current_time.
RECURSIVE ReestimateWords(_, _, _)
ReestimateWords(words, k, current_time) ==
    IF k > Len(words) THEN [words |-> words, current_time |-> current_time]
    ELSE LET w == words[k]
             e == RAdd(current_time, AVG_WORD_DURATION)
             nw == [w EXCEPT !.start = current_time,
                             !.end = e,
                             !.confidence = RMin(w.confidence, R(4, 10))]
         IN ReestimateWords([words EXCEPT ![k] = nw], k + 1,
                            RAdd(e, GAP_BETWEEN_WORDS))

\* CleanupWord without its last step (lines 707-709, "ensure end > start").
CleanupWordNoMinimum(w, word_prev_end, dur) ==
    LET s1 == RMax(Zero, RMin(w.start, RSub(dur, R(1, 10))))
        e1 == RMax(Zero, RMin(w.end, dur))
        s2 == IF word_prev_end # None /\ RLt(s1, word_prev_end)
              THEN RAdd(word_prev_end, R(2, 100)) ELSE s1
        e2 == IF RLt(R(15, 10), RSub(e1, s2)) THEN RAdd(s2, R(4, 10)) ELSE e1
    IN [w EXCEPT !.start = s2, !.end = e2]

\* CleanupWord with a word over the cap cut to the cap (1.5 s) instead of
\* reset to 0.4 s at lines 704-705.
CleanupWordCutToCap(w, word_prev_end, dur) ==
    LET s1 == RMax(Zero, RMin(w.start, RSub(dur, R(1, 10))))
        e1 == RMax(Zero, RMin(w.end, dur))
        s2 == IF word_prev_end # None /\ RLt(s1, word_prev_end)
              THEN RAdd(word_prev_end, R(2, 100)) ELSE s1
        e2 == IF RLt(R(15, 10), RSub(e1, s2)) THEN RAdd(s2, R(15, 10)) ELSE e1
        e3 == IF RLe(e2, s2) THEN RAdd(s2, R(2, 10)) ELSE e2
    IN [w EXCEPT !.start = s2, !.end = e3]

\* Lines 695-709: the body of the cleanup loop for one word.
CleanupWord(w, word_prev_end, dur) ==
    LET s1 == RMax(Zero, RMin(w.start, RSub(dur, R(1, 10))))
        e1 == RMax(Zero, RMin(w.end, dur))
        s2 == IF word_prev_end # None /\ RLt(s1, word_prev_end)
              THEN RAdd(word_prev_end, R(2, 100)) ELSE s1
        e2 == IF RLt(R(15, 10), RSub(e1, s2)) THEN RAdd(s2, R(4, 10)) ELSE e1
        e3 == IF RLe(e2, s2) THEN RAdd(s2, R(2, 10)) ELSE e2
    IN [w EXCEPT !.start = s2, !.end = e3]

\* The loop of the cleanup branch with line 711 keeping the word's start
\* instead of its end in word_prev_end.
RECURSIVE CleanupWordsBehindStart(_, _, _, _)
CleanupWordsBehindStart(words, k, word_prev_end, dur) ==
    IF k > Len(words) THEN [words |-> words, word_prev_end |-> word_prev_end]
    ELSE LET nw == CleanupWord(words[k], word_prev_end, dur)
         IN CleanupWordsBehindStart([words EXCEPT ![k] = nw], k + 1, nw.start, dur)

\* Lines 694-711: the loop of the cleanup branch, from word k on.
RECURSIVE CleanupWords(_, _, _, _)
CleanupWords(words, k, word_prev_end, dur) ==
    IF k > Len(words) THEN [words |-> words, word_prev_end |-> word_prev_end]
    ELSE LET nw == CleanupWord(words[k], word_prev_end, dur)
         IN CleanupWords([words EXCEPT ![k] = nw], k + 1, nw.end, dur)

\* LineSeemsBroken without the MAX_LINE_DURATION ceiling.
LineSeemsBrokenNoCeiling(line) ==
    LET num_words == Len(line.words)
        expected_line_duration ==
            RMul(RInt(num_words), RAdd(AVG_WORD_DURATION, GAP_BETWEEN_WORDS))
    IN RLt(RMul(expected_line_duration, RInt(2)),
           RSub(line.words[Len(line.words)].end, line.words[1].start))

\* Line 681.
LineSeemsBroken(line) ==
    LET first_word_start == line.words[1].start
        num_words == Len(line.words)
        expected_line_duration ==
            RMul(RInt(num_words), RAdd(AVG_WORD_DURATION, GAP_BETWEEN_WORDS))
        max_reasonable_end ==
            RAdd(first_word_start,
                 RMin(RMul(expected_line_duration, RInt(2)), MAX_LINE_DURATION))
        last_word_end == line.words[Len(line.words)].end
    IN RLt(RSub(max_reasonable_end, first_word_start),
           RSub(last_word_end, first_word_start))

\* The cleanup branch without line 693: word_prev_end keeps the value the
\* previous line's cleanup left in it.
CleanupStartKept(locals) == locals.word_prev_end

\* Line 693: the cleanup branch starts with word_prev_end = None.
CleanupStart(locals) == None

\* The line without lines 714-715: its start and end stay as they were.
LineBoundsKept(line, words) == [line EXCEPT !.words = words]

\* Lines 714-715: the line's start and end recalculated from its words, as
\* the branch taken left them.
RecalculatedLine(line, words) ==
    TimedLine(line.text, words[1].start, words[Len(words)].end, words)

\* Lines 668-715: one iteration of the loop over the lines.  Returns the
\* line as left by the iteration and the locals it leaves behind.
PostProcessLine(line, dur, locals) ==
    IF Len(line.words) = 0 THEN [line |-> line, locals |-> locals]
    ELSE IF LineSeemsBroken(line)
    THEN LET r == ReestimateWords(line.words, 1, line.words[1].start)
         IN [line |-> RecalculatedLine(line, r.words),
             locals |-> [locals EXCEPT !.current_time = r.current_time]]
    ELSE LET r == CleanupWords(line.words, 1, CleanupStart(locals), dur)
         IN [line |-> RecalculatedLine(line, r.words),
             locals |-> [locals EXCEPT !.word_prev_end = r.word_prev_end]]

\* Lines 667-717: the loop over the lines, from line k on.
RECURSIVE PostProcessFrom(_, _, _, _)
PostProcessFrom(lines, k, dur, locals) ==
    IF k > Len(lines) THEN lines
    ELSE LET r == PostProcessLine(lines[k], dur, locals)
         IN PostProcessFrom([lines EXCEPT ![k] = r.line], k + 1, dur, r.locals)

_post_process_timing(lines, dur) == PostProcessFrom(lines, 1, dur, NoLocals)

-----------------------------------------------------------------------------
\* Characters and strings (str.lower, str.upper, \w, \s, strip, split).

LowerLetters ==
    <<"a", "b", "c", "d", "e", "f", "g", "h", "i", "j", "k", "l", "m",
      "n", "o", "p", "q", "r", "s", "t", "u", "v", "w", "x", "y", "z">>
UpperLetters ==
    <<"A", "B", "C", "D", "E", "F", "G", "H", "I", "J", "K", "L", "M",
      "N", "O", "P", "Q", "R", "S", "T", "U", "V", "W", "X", "Y", "Z">>
Digits == { "0", "1", "2", "3", "4", "5", "6", "7", "8", "9" }

IsLower(c) == \E i \in DOMAIN LowerLetters : LowerLetters[i] = c
IsUpper(c) == \E i \in DOMAIN UpperLetters : UpperLetters[i] = c
LetterIndex(c, letters) == CHOOSE i \in DOMAIN letters : letters[i] = c

\* str.lower() and str.upper() on one character.
LowerChar(c) == IF IsUpper(c) THEN LowerLetters[LetterIndex(c, UpperLetters)] ELSE c
UpperChar(c) == IF IsLower(c) THEN UpperLetters[LetterIndex(c, LowerLetters)] ELSE c
Lower(str) == [i \in DOMAIN str |-> LowerChar(str[i])]
Upper(str) == [i \in DOMAIN str |-> UpperChar(str[i])]

\* The regular expression classes \w and \s.
IsWordChar(c) == IsLower(c) \/ IsUpper(c) \/ c \in Digits \/ c = "_"
Whitespace == { " ", "\t", "\n", "\r" }
IsSpace(c) == c \in Whitespace

\* re.sub(r'[^\w]', '', str)
KeepWordChars(str) == SelectSeq(str, IsWordChar)

\* s1 in s2 taken as: the characters of s1 occur in s2 in order.
RECURSIVE ContainsInOrder(_, _)
ContainsInOrder(s2, s1) ==
    IF Len(s1) = 0 THEN TRUE
    ELSE IF Len(s2) = 0 THEN FALSE
    ELSE IF Head(s1) = Head(s2) THEN ContainsInOrder(Tail(s2), Tail(s1))
    ELSE ContainsInOrder(Tail(s2), s1)

\* s1 in s2 (substring test).
Contains(s2, s1) ==
    \E i \in 0..(Len(s2) - Len(s1)) : SubSeq(s2, i + 1, i + Len(s1)) = s1

-----------------------------------------------------------------------------
\* soundex

\* The mapping dict of lines 107-115 with 'G' among the mute letters.
SoundexCodeMuteG(c) ==
    IF c \in { "B", "F", "P", "V" } THEN "1"
    ELSE IF c \in { "C", "J", "K", "Q", "S", "X", "Z" } THEN "2"
    ELSE IF c \in { "D", "T" } THEN "3"
    ELSE IF c = "L" THEN "4"
    ELSE IF c \in { "M", "N" } THEN "5"
    ELSE IF c = "R" THEN "6"
    ELSE "0"

\* The mapping dict of lines 107-115, with mapping.get(char, '0').
SoundexCode(c) ==
    IF c \in { "B", "F", "P", "V" } THEN "1"
    ELSE IF c \in { "C", "G", "J", "K", "Q", "S", "X", "Z" } THEN "2"
    ELSE IF c \in { "D", "T" } THEN "3"
    ELSE IF c = "L" THEN "4"
    ELSE IF c \in { "M", "N" } THEN "5"
    ELSE IF c = "R" THEN "6"
    ELSE "0"

\* Lines 121-125: the loop over word[1:], from character k on.
RECURSIVE SoundexFrom(_, _, _, _)
SoundexFrom(word, k, coded, prev_code) ==
    IF k > Len(word) THEN coded
    ELSE LET code == SoundexCode(word[k])
         IN SoundexFrom(word, k + 1,
                        IF code # "0" /\ code # prev_code
                        THEN Append(coded, code) ELSE coded,
                        code)

soundex(word) ==
    IF Len(word) = 0 THEN <<>>
    ELSE LET up == Upper(word)
             coded == SoundexFrom(up, 2, <<up[1]>>, SoundexCode(up[1]))
         IN SubSeq(coded \o <<"0", "0", "0">>, 1, 4)

-----------------------------------------------------------------------------
\* levenshtein_distance

Min3(a, b, c) ==
    IF a <= b /\ a <= c THEN a ELSE IF b <= c THEN b ELSE c

\* Lines 143-147: the inner loop building curr_row, from column j on.
RECURSIVE LevRow(_, _, _, _, _)
LevRow(c1, s2, prev_row, curr_row, j) ==
    IF j > Len(s2) THEN curr_row
    ELSE LET insertions == prev_row[j + 1] + 1
             deletions == curr_row[j] + 1
             substitutions == prev_row[j] + (IF c1 # s2[j] THEN 1 ELSE 0)
         IN LevRow(c1, s2, prev_row,
                   Append(curr_row, Min3(insertions, deletions, substitutions)),
                   j + 1)

\* Lines 141-148: the outer loop, from character i of s1 on.
RECURSIVE LevRows(_, _, _, _)
LevRows(s1, s2, prev_row, i) ==
    IF i > Len(s1) THEN prev_row
    ELSE LevRows(s1, s2, LevRow(s1[i], s2, prev_row, <<i>>, 1), i + 1)

RECURSIVE levenshtein_distance(_, _)
levenshtein_distance(s1, s2) ==
    IF Len(s1) < Len(s2) THEN levenshtein_distance(s2, s1)
    ELSE IF Len(s2) = 0 THEN Len(s1)
    ELSE LET last_row == LevRows(s1, s2, [j \in 1..(Len(s2) + 1) |-> j - 1], 1)
         IN last_row[Len(last_row)]

-----------------------------------------------------------------------------
\* word_similarity

IntMax(a, b) == IF a >= b THEN a ELSE b

word_similarity(word1, word2) ==
    IF Len(word1) = 0 \/ Len(word2) = 0 THEN Zero
    ELSE
    LET w1 == KeepWordChars(Lower(word1))
        w2 == KeepWordChars(Lower(word2))
    IN  IF Len(w1) = 0 \/ Len(w2) = 0 THEN Zero
        ELSE IF w1 = w2 THEN One
        ELSE IF Contains(w2, w1) \/ Contains(w1, w2) THEN R(9, 10)
        ELSE IF Len(w1) >= 2 /\ Len(w2) >= 2 /\ soundex(w1) = soundex(w2)
             THEN R(85, 100)
        ELSE LET max_len == IntMax(Len(w1), Len(w2))
                 distance == levenshtein_distance(w1, w2)
                 lev_similarity == RSub(One, R(distance, max_len))
             IN IF /\ Len(w1) >= 3 /\ Len(w2) >= 3
                   /\ SubSeq(w1, 1, 3) = SubSeq(w2, 1, 3)
                THEN RMax(R(7, 10), lev_similarity)
                ELSE lev_similarity

-----------------------------------------------------------------------------
\* dtw_align

\* np.inf: greater than every number (RLt compares by cross-multiplication),
\* and inf + c = inf.
Inf == <<1, 0>>
CostAdd(a, c) == IF a = Inf THEN Inf ELSE RAdd(a, c)

SkipLyricsPenalty == R(5, 10)
SkipTranscribedPenalty == R(3, 10)

\* A recognized word as align_lyrics collects it (lines 530-535).
TranscribedWord(w, s, e, sc) == [word |-> w, start |-> s, end |-> e, score |-> sc]

\* Lines 218-221: sim_matrix, indexed from 1.
SimMatrix(lw, tw) ==
    [i \in 1..Len(lw) |-> [j \in 1..Len(tw) |-> word_similarity(lw[i], tw[j].word)]]

\* Lines 228-232: dtw = inf everywhere but dtw[0, 0] = 0, path = zeros.
DtwInitial(n, m) ==
    [c \in (0..n) \X (0..m) |->
        [cost |-> IF c = <<0, 0>> THEN Zero ELSE Inf, prevs |-> { <<0, 0>> }]]

\* Lines 236-247: the cell (i, j).  min(candidates, key=...) returns the
\* first of the cheapest candidates.  Candidates whose exact costs are equal
\* are sums of different floating-point terms, which rounding may order
\* either way (0.8 + (1 - 0.9) against (0.5 + (1 - 0.9)) + 0.3), so each of
\* them may be the one recorded in path[i, j]: prevs holds them all.
DtwCell(tab, sim, i, j) ==
    LET c == RSub(One, sim[i][j])
        candidates ==
            { [cost |-> CostAdd(tab[<<i - 1, j - 1>>].cost, c),
               prev |-> <<i - 1, j - 1>>],
              [cost |-> CostAdd(tab[<<i - 1, j>>].cost, SkipLyricsPenalty),
               prev |-> <<i - 1, j>>],
              [cost |-> CostAdd(tab[<<i, j - 1>>].cost, SkipTranscribedPenalty),
               prev |-> <<i, j - 1>>] }
        best == { x \in candidates : \A y \in candidates : ~RLt(y.cost, x.cost) }
    IN [cost |-> (CHOOSE x \in best : TRUE).cost,
        prevs |-> { x.prev : x \in best }]

\* Lines 234-247: the two loops, from the c-th cell (row by row) on.
RECURSIVE DtwFill(_, _, _, _, _)
DtwFill(tab, sim, n, m, c) ==
    IF c >= n * m THEN tab
    ELSE LET i == (c \div m) + 1
             j == (c % m) + 1
         IN DtwFill([tab EXCEPT ![<<i, j>>] = DtwCell(tab, sim, i, j)],
                    sim, n, m, c + 1)

DtwTable(lw, tw) ==
    DtwFill(DtwInitial(Len(lw), Len(tw)), SimMatrix(lw, tw), Len(lw), Len(tw), 0)

\* Lines 251-262: the values (i, j) takes in the backtracking loop, from
\* (i, j) to the cell the loop stops at; one sequence for each way of
\* following path.
RECURSIVE BacktrackCells(_, _, _)
BacktrackCells(tab, i, j) ==
    IF ~(i > 0 /\ j > 0) THEN { << <<i, j>> >> }
    ELSE UNION { { << <<i, j>> >> \o rest : rest \in BacktrackCells(tab, prev[1], prev[2]) }
                 : prev \in tab[<<i, j>>].prevs }

\* Line 259 with > in place of >=.
ExceedsThreshold(sim, threshold) == RLt(threshold, sim)

\* Line 259: if sim >= similarity_threshold
ReachesThreshold(sim, threshold) == RLe(threshold, sim)

\* Lines 254-260: what the loop appends to alignments along those cells,
\* from the k-th on.
RECURSIVE Backtrack(_, _, _, _, _)
Backtrack(cells, sim, threshold, k, found) ==
    IF k >= Len(cells) THEN found
    ELSE LET i == cells[k][1]
             j == cells[k][2]
         IN Backtrack(cells, sim, threshold, k + 1,
                      IF cells[k + 1] = <<i - 1, j - 1>>
                         /\ ReachesThreshold(sim[i][j], threshold)
                      THEN Append(found, <<i - 1, j - 1, sim[i][j]>>)
                      ELSE found)

\* list.reverse()
Reverse(seq) == [k \in 1..Len(seq) |-> seq[Len(seq) + 1 - k]]

\* dtw_align without line 264: the matches in backtracking order.
AlignmentsNotReversed(found) == found

\* Line 264.
AlignmentsInOrder(found) == Reverse(found)

\* What dtw_align can return, each with the cells it backtracked through.
dtw_align(lw, tw, threshold) ==
    IF Len(lw) = 0 \/ Len(tw) = 0 THEN { [cells |-> <<>>, alignments |-> <<>>] }
    ELSE { [cells |-> cells,
            alignments |->
                AlignmentsInOrder(Backtrack(cells, SimMatrix(lw, tw), threshold, 1, <<>>))]
           : cells \in BacktrackCells(DtwTable(lw, tw), Len(lw), Len(tw)) }

-----------------------------------------------------------------------------
\* str.strip, str.split, str.startswith

\* str.strip(): without leading and trailing whitespace.
RECURSIVE LStrip(_)
LStrip(str) ==
    IF Len(str) > 0 /\ IsSpace(str[1]) THEN LStrip(Tail(str)) ELSE str
RECURSIVE RStrip(_)
RStrip(str) ==
    IF Len(str) > 0 /\ IsSpace(str[Len(str)])
    THEN RStrip(SubSeq(str, 1, Len(str) - 1)) ELSE str
Strip(str) == LStrip(RStrip(str))

\* The pieces of str between the characters of the set seps, empty pieces
\* included, reading from character k with `piece` under way.
RECURSIVE Pieces(_, _, _, _)
Pieces(str, seps, k, piece) ==
    IF k > Len(str) THEN <<piece>>
    ELSE IF str[k] \in seps THEN <<piece>> \o Pieces(str, seps, k + 1, <<>>)
    ELSE Pieces(str, seps, k + 1, Append(piece, str[k]))

NonEmpty(str) == Len(str) > 0

\* str.split('\n')
SplitLines(str) == Pieces(str, { "\n" }, 1, <<>>)
\* str.split(): the runs of non-whitespace characters.
Split(str) == SelectSeq(Pieces(str, Whitespace, 1, <<>>), NonEmpty)

Range(seq) == { seq[k] : k \in DOMAIN seq }

-----------------------------------------------------------------------------
\* segment_based_alignment

\* A recognizer segment.
Segment(t, s, e, ws) == [text |-> t, start |-> s, end |-> e, words |-> ws]

\* re.sub(r'[^\w\s]', '', str)
IsWordOrSpace(c) == IsWordChar(c) \/ IsSpace(c)
\* Lines 301 and 303: set(re.sub(r'[^\w\s]', '', str.lower()).split())
WordSet(str) == Range(Split(SelectSeq(Lower(str), IsWordOrSpace)))

\* Lines 305-309: the Jaccard similarity of a line and a segment text.
Jaccard(line, seg_text) ==
    LET line_words == WordSet(line)
        seg_words == WordSet(seg_text)
    IN IF line_words # {} /\ seg_words # {}
       THEN R(Cardinality(line_words \cap seg_words),
              Cardinality(line_words \cup seg_words))
       ELSE Zero

\* Lines 287-291 with the shares counted from 1 instead of from 0.
EvenDistributionFromOne(lines, audio_duration) ==
    LET line_duration == RDiv(audio_duration, RInt(IntMax(Len(lines), 1)))
    IN [k \in 1..Len(lines) |->
          <<k - 1, RMul(RInt(k), line_duration), RMul(RInt(k + 1), line_duration)>>]

\* Lines 287-291: no segments, lines spread evenly over the duration.
EvenDistribution(lines, audio_duration) ==
    LET line_duration == RDiv(audio_duration, RInt(IntMax(Len(lines), 1)))
    IN [k \in 1..Len(lines) |->
          <<k - 1, RMul(RInt(k - 1), line_duration), RMul(RInt(k), line_duration)>>]

\* 2^t modulo n, for the binary digits of a quotient of small integers.
RECURSIVE Pow2Mod(_, _)
Pow2Mod(t, n) ==
    IF t = 0 THEN 1 % n
    ELSE IF t % 2 = 0 THEN LET half == Pow2Mod(t \div 2, n) IN (half * half) % n
    ELSE (2 * Pow2Mod(t - 1, n)) % n

\* The least e with a * 2^e >= b, from `e` on: the binary exponent of b / a.
RECURSIVE BinaryExponent(_, _, _)
BinaryExponent(a, b, e) == IF a * (2 ^ e) >= b THEN e ELSE BinaryExponent(a, b, e + 1)

\* Line 321 in exact arithmetic: the integer part of i * n_segments / n_lines.
ExpectedSegmentExact(i, n_lines, n_segments) == (i * n_segments) \div n_lines

\* Line 321: int((i / n_lines) * n_segments), in the 53-bit binary floating
\* point Python computes it in. The quotient i / n_lines is rounded to 53
\* bits (rem is what the rounding drops, in units of the last bit over
\* n_lines), the product is rounded again, and int() truncates. The result is
\* the exact integer part k except when i * n_segments / n_lines is a whole
\* number k, the quotient was rounded down, and the product falls nearer to
\* the float below k than to k: then it is k - 1.
ExpectedSegment(i, n_lines, n_segments) ==
    LET k == (i * n_segments) \div n_lines
    IN IF i = 0 \/ (i * n_segments) % n_lines # 0 THEN k
       ELSE LET e == BinaryExponent(i, n_lines, 0)
                rem == (i * Pow2Mod(52 + e, n_lines)) % n_lines
                E == BinaryExponent(1, k, 0)
            IN IF rem = 0 \/ 2 * rem > n_lines THEN k
               ELSE IF 4 * rem * n_segments > n_lines * (2 ^ (E + e)) THEN k - 1
               ELSE k
\* Line 322.
SearchRange(n_segments) == IntMax(3, n_segments \div 4)

\* Lines 324-325: the segment indices in the order the two loops try them.
RECURSIVE Candidates(_, _, _)
Candidates(expected_seg, offset, search_range) ==
    IF offset > search_range THEN <<>>
    ELSE <<expected_seg + offset, expected_seg - offset>>
            \o Candidates(expected_seg, offset + 1, search_range)

\* Lines 328-329.
Score(sim, j, expected_seg, n_segments) ==
    LET position_bonus == RSub(One, R(Abs(j - expected_seg), n_segments))
    IN RAdd(RMul(sim, R(7, 10)), RMul(position_bonus, R(3, 10)))

\* Lines 324-333: the search for line i (from 0), from the k-th candidate on.
RECURSIVE BestSegment(_, _, _, _, _, _)
BestSegment(lines, segs, i, used_segments, k, best) ==
    LET expected_seg == ExpectedSegment(i, Len(lines), Len(segs))
        cands == Candidates(expected_seg, 0, SearchRange(Len(segs)))
    IN IF k > Len(cands) THEN best
       ELSE LET j == cands[k]
                score == Score(Jaccard(lines[i + 1], segs[j + 1].text), j,
                               expected_seg, Len(segs))
            IN IF 0 <= j /\ j < Len(segs) /\ j \notin used_segments
                  /\ RLt(best.best_score, score)
               THEN BestSegment(lines, segs, i, used_segments, k + 1,
                                [best_seg |-> j, best_score |-> score])
               ELSE BestSegment(lines, segs, i, used_segments, k + 1, best)

\* Line 317: best_seg = None, among segment indices that are never negative.
NoSegment == -1

\* Line 343 with the whole duration in place of what is left of it.
InterpolationGapOfWhole(audio_duration, prev_end, n_lines, i) ==
    RDiv(audio_duration, RInt(n_lines - i))

\* Line 343 with all the lines in place of the lines that are left.
InterpolationGapPerLine(audio_duration, prev_end, n_lines, i) ==
    RDiv(RSub(audio_duration, prev_end), RInt(n_lines))

\* Line 343.
InterpolationGap(audio_duration, prev_end, n_lines, i) ==
    RDiv(RSub(audio_duration, prev_end), RInt(n_lines - i))

\* Lines 315-347: the loop over the lines, from line i (from 0) on.
RECURSIVE AssignSegments(_, _, _, _, _, _)
AssignSegments(lines, segs, audio_duration, i, line_tim, used_segments) ==
    IF i >= Len(lines) THEN line_tim
    ELSE
    LET best == BestSegment(lines, segs, i, used_segments, 1,
                            [best_seg |-> NoSegment, best_score |-> RInt(-1)])
    IN  IF best.best_seg # NoSegment /\ RLt(R(2, 10), best.best_score)
        THEN LET seg == segs[best.best_seg + 1]
             IN AssignSegments(lines, segs, audio_duration, i + 1,
                               Append(line_tim, <<i, seg.start, seg.end>>),
                               used_segments \cup { best.best_seg })
        ELSE IF Len(line_tim) > 0
        THEN LET prev_end == line_tim[Len(line_tim)][3]
                 gap == InterpolationGap(audio_duration, prev_end, Len(lines), i)
             IN AssignSegments(lines, segs, audio_duration, i + 1,
                               Append(line_tim, <<i, prev_end, RAdd(prev_end, gap)>>),
                               used_segments)
        ELSE LET gap == RDiv(audio_duration, RInt(Len(lines)))
             IN AssignSegments(lines, segs, audio_duration, i + 1,
                               Append(line_tim, <<i, RMul(RInt(i), gap),
                                                  RMul(RInt(i + 1), gap)>>),
                               used_segments)

segment_based_alignment(lines, segs, audio_duration) ==
    IF Len(segs) = 0 THEN EvenDistribution(lines, audio_duration)
    ELSE AssignSegments(lines, segs, audio_duration, 0, <<>>, {})

-----------------------------------------------------------------------------
\* LyricsAligner.align_lyrics

LyricsTimingData(t, d, ls) == [title |-> t, duration |-> d, lines |-> ls]

\* A word of the recognizer result.  A key the recognizer left out ('start'
\* and 'end' of a word it could not align, 'score') is None here.
WordInfo(w, s, e, sc) == [word |-> w, start |-> s, end |-> e, score |-> sc]

\* The concatenation of a sequence of sequences.
RECURSIVE Concat(_)
Concat(seqs) == IF Len(seqs) = 0 THEN <<>> ELSE Head(seqs) \o Concat(Tail(seqs))

\* Lines 526-535: the recognized words that carry both 'start' and 'end'.
HasTimes(word_info) == word_info.start # None /\ word_info.end # None
TranscribedWords(segs) ==
    LET timed == SelectSeq(Concat([k \in DOMAIN segs |-> segs[k].words]), HasTimes)
    IN [k \in DOMAIN timed |->
          TranscribedWord(Strip(timed[k].word), timed[k].start, timed[k].end,
                          IF timed[k].score = None THEN One ELSE timed[k].score)]

\* Line 542 without its second test: section headers are kept.
KeepsLineWithHeaders(line) == Len(Strip(line)) > 0

\* Line 542: if line.strip() and not line.strip().startswith('[')
KeepsLine(line) == Len(Strip(line)) > 0 /\ Strip(line)[1] # "["

\* Lines 540-543.
ParseLyrics(text) ==
    LET kept == SelectSeq(SplitLines(Strip(text)), KeepsLine)
    IN [k \in DOMAIN kept |-> Strip(kept[k])]

\* Lines 555-562: all_lyrics_words and word_to_line_map (indices from 0).
AllLyricsWords(lines) == Concat([k \in DOMAIN lines |-> Split(lines[k])])
WordToLineMap(lines) ==
    Concat([k \in DOMAIN lines |->
              [w \in DOMAIN Split(lines[k]) |-> <<k - 1, w - 1>>]])

\* Lines 569-577 with the similarity alone as the confidence.
WordTimingMapUnscored(dtw_alignments, word_to_line_map, tw) ==
    LET KeyOf(a) == word_to_line_map[dtw_alignments[a][1] + 1]
    IN [key \in { KeyOf(a) : a \in DOMAIN dtw_alignments } |->
          LET a == CHOOSE x \in DOMAIN dtw_alignments :
                      /\ KeyOf(x) = key
                      /\ \A y \in DOMAIN dtw_alignments : KeyOf(y) = key => y <= x
              w == tw[dtw_alignments[a][2] + 1]
          IN [start |-> w.start, end |-> w.end, confidence |-> dtw_alignments[a][3]]]

\* Lines 569-577: word_timing_map; a later alignment of the same lyric word
\* replaces an earlier one.
WordTimingMap(dtw_alignments, word_to_line_map, tw) ==
    LET KeyOf(a) == word_to_line_map[dtw_alignments[a][1] + 1]
        keys == { KeyOf(a) : a \in DOMAIN dtw_alignments }
    IN [key \in keys |->
          LET a == CHOOSE x \in DOMAIN dtw_alignments :
                      /\ KeyOf(x) = key
                      /\ \A y \in DOMAIN dtw_alignments : KeyOf(y) = key => y <= x
              w == tw[dtw_alignments[a][2] + 1]
          IN [start |-> w.start, end |-> w.end,
              confidence |-> RMul(dtw_alignments[a][3], w.score)]]

\* Lines 589-595: the anchor of line line_idx (from 0).
LineAnchor(line_tim, line_idx, n_lines, audio_duration) ==
    IF \E k \in DOMAIN line_tim : line_tim[k][1] = line_idx
    THEN LET k == CHOOSE x \in DOMAIN line_tim :
                     /\ line_tim[x][1] = line_idx
                     /\ \A y \in DOMAIN line_tim : line_tim[y][1] = line_idx => x <= y
         IN <<line_tim[k][2], line_tim[k][3]>>
    ELSE <<RMul(R(line_idx, n_lines), audio_duration),
           RMul(R(line_idx + 1, n_lines), audio_duration)>>

\* Lines 616-623 with the interpolated word given full confidence.
InterpolatedWordTrusted(lyric_word, est_start) ==
    TimedWord(lyric_word, est_start, RAdd(est_start, R(25, 100)), One)

\* Lines 616-623: an interpolated word lasts 0.25 s and has confidence 0.3.
InterpolatedWord(lyric_word, est_start) ==
    TimedWord(lyric_word, est_start, RAdd(est_start, R(25, 100)), R(3, 10))

\* Lines 597-624: the words of one line, from word word_idx (from 0) on.
RECURSIVE TimeWords(_, _, _, _, _, _)
TimeWords(line_words, line_idx, word_idx, anchor, word_timing_map, line_timed_words) ==
    IF word_idx >= Len(line_words) THEN line_timed_words
    ELSE
    LET lyric_word == line_words[word_idx + 1]
        timed_word ==
            IF <<line_idx, word_idx>> \in DOMAIN word_timing_map
            THEN LET timing == word_timing_map[<<line_idx, word_idx>>]
                 IN TimedWord(lyric_word, timing.start, timing.end, timing.confidence)
            ELSE LET word_progress == R(word_idx, IntMax(Len(line_words), 1))
                     est == RAdd(anchor[1],
                                 RMul(RSub(anchor[2], anchor[1]), word_progress))
                     est_start ==
                         IF Len(line_timed_words) > 0
                         THEN RMax(est, RAdd(line_timed_words[Len(line_timed_words)].end,
                                             R(5, 100)))
                         ELSE est
                 IN InterpolatedWord(lyric_word, est_start)
    IN TimeWords(line_words, line_idx, word_idx + 1, anchor, word_timing_map,
                 Append(line_timed_words, timed_word))

\* Lines 584-636: the draft timed lines, from line line_idx (from 0) on.
RECURSIVE BuildTimedLines(_, _, _, _, _, _)
BuildTimedLines(lines, line_idx, line_tim, word_timing_map, audio_duration, built) ==
    IF line_idx >= Len(lines) THEN built
    ELSE
    LET line == lines[line_idx + 1]
        anchor == LineAnchor(line_tim, line_idx, Len(lines), audio_duration)
        ws == TimeWords(Split(line), line_idx, 0, anchor, word_timing_map, <<>>)
    IN BuildTimedLines(lines, line_idx + 1, line_tim, word_timing_map, audio_duration,
                       IF Len(ws) > 0
                       THEN Append(built, TimedLine(line, ws[1].start, ws[Len(ws)].end, ws))
                       ELSE built)

\* Line 566 with a threshold of 0.9.
AlignThresholdOfSubstring == R(9, 10)

\* Line 566: align_lyrics calls dtw_align with similarity_threshold = 0.4.
AlignThreshold == R(4, 10)

\* What align_lyrics can compute from the recognizer's segments, the lyric
\* text and the audio duration: its locals and the document it returns, one
\* for each outcome of dtw_align.
align_lyrics(segs, text, title, audio_duration) ==
    LET tw == TranscribedWords(segs)
        lines == ParseLyrics(text)
        line_tim == segment_based_alignment(lines, segs, audio_duration)
        all_lyrics_words == AllLyricsWords(lines)
    IN { LET draft == BuildTimedLines(lines, 0, line_tim,
                          WordTimingMap(r.alignments, WordToLineMap(lines), tw),
                          audio_duration, <<>>)
             repaired == _post_process_timing(draft, audio_duration)
         IN [transcribed_words |-> tw, lyrics_lines |-> lines,
             line_timings |-> line_tim, all_lyrics_words |-> all_lyrics_words,
             dtw_alignments |-> r.alignments, cells |-> r.cells,
             draft |-> draft, timed_lines |-> repaired,
             returned |-> LyricsTimingData(title, audio_duration, repaired)]
         : r \in dtw_align(all_lyrics_words, tw, AlignThreshold) }

-----------------------------------------------------------------------------
\* Inputs of the repair pass.

\* Bounds of the repair-pass inputs.
MaxTotalWords == 3
LongLineWords == 10

la == <<"l", "a">>

\* Word timings a draft line can hold: in order, a zero-length word a tenth
\* of a second before the end of a 2 s audio, a far outlier, a
\* negative-length word, a long word, and a well-timed low-confidence word.
RepairWords ==
    { TimedWord(la, R(19, 10), R(19, 10), R(3, 10)),
      TimedWord(la, Zero, RInt(50), One),
      TimedWord(la, One, R(6, 10), R(9, 10)),
      TimedWord(la, R(6, 10), R(23, 10), One),
      TimedWord(la, One, R(19, 10), R(3, 10)) }

RepairDurations == { RInt(2), RInt(10) }

\* A line as align_lyrics builds it (lines 626-636): its bounds are those of
\* its first and last word.  A line without words can only come from a file.
LineOf(ws) ==
    IF Len(ws) = 0 THEN TimedLine(<<>>, Zero, Zero, <<>>)
    ELSE TimedLine(<<>>, ws[1].start, ws[Len(ws)].end, ws)

\* The lines that weigh k: k words, or no word for k = 1.
LinesOfSize(k) ==
    { LineOf(ws) : ws \in [1..k -> RepairWords] }
        \cup (IF k = 1 THEN { LineOf(<<>>) } ELSE {})

\* The lists of lines of total weight s.
RECURSIVE DocsOfSize(_)
DocsOfSize(s) ==
    IF s = 0 THEN { <<>> }
    ELSE UNION { { <<l>> \o d : l \in LinesOfSize(k), d \in DocsOfSize(s - k) }
                 : k \in 1..s }

\* A line of LongLineWords words, each half a second long, one every
\* `spacing` seconds: long enough for MAX_LINE_DURATION to decide.
LongLine(spacing) ==
    LineOf([k \in 1..LongLineWords |->
              TimedWord(la, RMul(RInt(k - 1), spacing),
                        RAdd(RMul(RInt(k - 1), spacing), R(4, 10)), One)])

RepairDocs ==
    UNION { DocsOfSize(s) : s \in 0..MaxTotalWords }
        \cup { <<LongLine(sp)>> : sp \in { R(5, 10), R(9, 10), RInt(5) } }

\* The same line with other timings: every word an outlier, or every word
\* over the same half second.
Retimed(line, kind) ==
    [line EXCEPT !.words =
        [k \in DOMAIN line.words |->
            IF kind = 1
            THEN [line.words[k] EXCEPT !.start = Zero, !.end = RInt(50)]
            ELSE [line.words[k] EXCEPT !.start = R(1, 2), !.end = RInt(1)]]]

-----------------------------------------------------------------------------
\* The other components' variables, while the repair pass runs alone.

DtwIdle ==
    /\ lyrics_words = <<>>
    /\ transcribed_words = <<>>
    /\ similarity_threshold = None
    /\ alignments = None
    /\ backtracked = None

SegIdle ==
    /\ lyrics_lines = <<>>
    /\ segments = <<>>
    /\ line_timings = None

AlignIdle ==
    /\ raw_lines = <<>>
    /\ lyrics_text = <<>>
    /\ result = None

RepairIdle ==
    /\ timed_lines = <<>>
    /\ before = None
    /\ twin_lines = <<>>
    /\ changed_line = 0

SimIdle ==
    /\ arg_word1 = <<>>
    /\ arg_word2 = <<>>
    /\ similarity = None

JsonIdle ==
    /\ saved = None
    /\ loaded = None

\* No ProjectManager call made yet.
NoCall == [op |-> "", project_id |-> "", job_dir |-> "", returned |-> None, raised |-> ""]

ServerIdle == requests = <<>>

ProjectsIdle ==
    /\ projects_dir = <<>>
    /\ index_file = None
    /\ upload_folder = <<>>
    /\ clock = 0
    /\ called = NoCall
    /\ ServerIdle

simVars == <<arg_word1, arg_word2, similarity>>
jsonVars == <<saved, loaded>>
diskVars == <<projects_dir, index_file, upload_folder>>
projectVars == <<projects_dir, index_file, upload_folder, clock, called, requests>>
dtwVars == <<lyrics_words, transcribed_words, similarity_threshold, alignments,
            backtracked>>
segVars == <<lyrics_lines, segments, line_timings>>
alignVars == <<raw_lines, lyrics_text, result>>
repairVars == <<timed_lines, before, twin_lines, changed_line>>

-----------------------------------------------------------------------------
\* The repair pass on its own: _post_process_timing called on a list of
\* draft lines, then called again on what it returned.

InitRepair ==
    /\ pc = "start"
    /\ timed_lines \in RepairDocs
    /\ duration \in RepairDurations
    /\ before = None
    /\ changed_line \in (IF Len(timed_lines) = 0 THEN {0} ELSE 1..Len(timed_lines))
    /\ \E kind \in 1..2 :
          twin_lines = IF changed_line = 0 THEN timed_lines
                       ELSE [timed_lines EXCEPT ![changed_line] =
                                Retimed(timed_lines[changed_line], kind)]
    /\ DtwIdle /\ SegIdle /\ AlignIdle /\ SimIdle /\ JsonIdle /\ ProjectsIdle

\* The call _post_process_timing(timed_lines, duration), on both runs.
PostProcessTiming ==
    /\ pc = "start"
    /\ before' = timed_lines
    /\ timed_lines' = _post_process_timing(timed_lines, duration)
    /\ twin_lines' = _post_process_timing(twin_lines, duration)
    /\ pc' = "repaired"
    /\ UNCHANGED <<duration, changed_line, dtwVars, segVars, alignVars, simVars,
                   jsonVars, projectVars>>

\* The same call on the list the first call returned.
PostProcessAgain ==
    /\ pc = "repaired"
    /\ before' = timed_lines
    /\ timed_lines' = _post_process_timing(timed_lines, duration)
    /\ pc' = "repaired_again"
    /\ UNCHANGED <<duration, twin_lines, changed_line, dtwVars, segVars, alignVars,
                   simVars, jsonVars, projectVars>>

NextRepair == PostProcessTiming \/ PostProcessAgain

SpecRepair == InitRepair /\ [][NextRepair]_vars

-----------------------------------------------------------------------------
\* Properties of the repair pass.

Repaired == pc \in { "repaired", "repaired_again" }

\* C2: after _post_process_timing, in every line the word start times are
\* non-decreasing and every word's end is strictly greater than its start.
RepairedWordsOrdered ==
    Repaired =>
        \A i \in DOMAIN timed_lines : \A k \in DOMAIN timed_lines[i].words :
            LET ws == timed_lines[i].words IN
            /\ RLt(ws[k].start, ws[k].end)
            /\ k > 1 => RLe(ws[k - 1].start, ws[k].start)

\* A repaired line whose draft held a word with end <= start and two words
\* with decreasing starts.
RepairedWordsOrderedWitness ==
    /\ pc = "repaired"
    /\ \E i \in DOMAIN before :
          LET ws == before[i].words IN
          /\ \E k \in DOMAIN ws : RLe(ws[k].end, ws[k].start)
          /\ \E k \in DOMAIN ws : k > 1 /\ RLt(ws[k].start, ws[k - 1].start)

\* C3 (as claimed): after _post_process_timing with duration D every word
\* has 0 <= start and end <= D.
RepairedWithinDuration ==
    pc = "repaired" =>
        \A i \in DOMAIN timed_lines : \A k \in DOMAIN timed_lines[i].words :
            /\ RLe(Zero, timed_lines[i].words[k].start)
            /\ RLe(timed_lines[i].words[k].end, duration)

\* C6 (as claimed): a second _post_process_timing call with the same
\* duration leaves the list as the first call returned it.
RepairIdempotent ==
    pc = "repaired_again" => timed_lines = before

Span(line) == RSub(line.words[Len(line.words)].end, line.words[1].start)
TwiceExpected(line) == RMul(RInt(2 * Len(line.words)), R(43, 100))

\* C7: a line whose span exceeds min(2 x expected duration, 8 s) is left
\* with a span of at most twice its expected duration, with its first word's
\* start unchanged and with every confidence at most 0.4.
BrokenLineBounded ==
    pc = "repaired" =>
        \A i \in DOMAIN before :
            (/\ Len(before[i].words) > 0
             /\ RLt(RMin(TwiceExpected(before[i]), RInt(8)), Span(before[i])))
            => /\ RLe(Span(timed_lines[i]), TwiceExpected(timed_lines[i]))
               /\ Len(timed_lines[i].words) = Len(before[i].words)
               /\ timed_lines[i].words[1].start = before[i].words[1].start
               /\ \A k \in DOMAIN timed_lines[i].words :
                     RLe(timed_lines[i].words[k].confidence, R(4, 10))

\* A repaired line whose draft spanned more than 8 s but no more than twice
\* its expected duration: only the 8 s ceiling makes it broken.
BrokenLineBoundedWitness ==
    /\ pc = "repaired"
    /\ \E i \in DOMAIN before :
          /\ Len(before[i].words) > 0
          /\ RLt(RInt(8), Span(before[i]))
          /\ RLe(Span(before[i]), TwiceExpected(before[i]))
          /\ timed_lines[i] # before[i]

\* C8: the repaired output of a line depends only on that line's draft and
\* on the duration: two runs whose inputs differ in one line agree on every
\* other line.
RepairLinesIndependent ==
    pc = "repaired" =>
        /\ Len(twin_lines) = Len(timed_lines)
        /\ \A i \in DOMAIN timed_lines :
              i # changed_line => twin_lines[i] = timed_lines[i]

\* Two runs that differ in the changed line, before a line that the repair
\* pass had to change.
RepairLinesIndependentWitness ==
    /\ pc = "repaired"
    /\ changed_line \in DOMAIN timed_lines
    /\ twin_lines[changed_line] # timed_lines[changed_line]
    /\ \E i \in DOMAIN timed_lines :
          i > changed_line /\ timed_lines[i] # before[i]

-----------------------------------------------------------------------------
\* dtw_align on its own.

\* Bounds of the dtw_align inputs.
MaxLyricsWords == 3
MaxTranscribedWords == 3

\* "a"/"ab" match by the substring rule (0.9), "ab"/"cb" by edit distance
\* (0.5), and "x" is unlike every lyric word (0).
LyricsVocabulary == { <<"a">>, <<"a", "b">>, <<"c", "b">> }
TranscribedVocabulary == { <<"a">>, <<"c", "b">>, <<"x">> }

SeqsUpTo(S, n) == UNION { [1..k -> S] : k \in 0..n }

\* The j-th recognized word: 0.4 s long, one every half second.
Recognized(ws) ==
    [j \in DOMAIN ws |->
        TranscribedWord(ws[j], R(j - 1, 2), RAdd(R(j - 1, 2), R(4, 10)), One)]

InitDtw ==
    /\ pc = "start"
    /\ lyrics_words \in SeqsUpTo(LyricsVocabulary, MaxLyricsWords)
    /\ \E ws \in SeqsUpTo(TranscribedVocabulary, MaxTranscribedWords) :
          transcribed_words = Recognized(ws)
    /\ similarity_threshold \in { R(4, 10), R(5, 10) }
    /\ alignments = None
    /\ backtracked = None
    /\ duration = None
    /\ RepairIdle /\ SegIdle /\ AlignIdle /\ SimIdle /\ JsonIdle /\ ProjectsIdle

\* The call dtw_align(lyrics_words, transcribed_words, similarity_threshold).
DtwAlign ==
    /\ pc = "start"
    /\ \E r \in dtw_align(lyrics_words, transcribed_words, similarity_threshold) :
          /\ alignments' = r.alignments
          /\ backtracked' = r.cells
    /\ pc' = "dtw_align"
    /\ UNCHANGED <<lyrics_words, transcribed_words, similarity_threshold,
                   duration, repairVars, segVars, alignVars, simVars, jsonVars,
                   projectVars>>

NextDtw == DtwAlign

SpecDtw == InitDtw /\ [][NextDtw]_vars

-----------------------------------------------------------------------------
\* Properties of dtw_align.

\* C4: the returned list is strictly increasing in the lyric index and
\* strictly increasing in the recognized index.
AlignmentsStrictlyIncreasing ==
    pc = "dtw_align" =>
        \A k \in DOMAIN alignments :
            k > 1 => /\ alignments[k - 1][1] < alignments[k][1]
                     /\ alignments[k - 1][2] < alignments[k][2]

\* A call that returned two matches or more and left a word of each list
\* unmatched.
AlignmentsStrictlyIncreasingWitness ==
    /\ pc = "dtw_align"
    /\ Len(alignments) >= 2
    /\ Len(alignments) < Len(lyrics_words)
    /\ Len(alignments) < Len(transcribed_words)

\* The cost of the step that leaves cell `from` and arrives in cell `to`.
StepCost(from, to) ==
    IF to = <<from[1] + 1, from[2] + 1>>
    THEN RSub(One, word_similarity(lyrics_words[to[1]], transcribed_words[to[2]].word))
    ELSE IF to = <<from[1] + 1, from[2]>> THEN R(5, 10)
    ELSE R(3, 10)

\* The total cost of the steps through the cells (last cell first).
RECURSIVE CellsCost(_)
CellsCost(cells) ==
    IF Len(cells) <= 1 THEN Zero
    ELSE RAdd(StepCost(cells[2], cells[1]), CellsCost(Tail(cells)))

\* The least total cost of a sequence of steps from (0, 0) to (i, j), each a
\* match, a skipped lyric word or a skipped recognized word.
RECURSIVE LeastCost(_, _)
LeastCost(i, j) ==
    IF i = 0 /\ j = 0 THEN Zero
    ELSE LET match == IF i > 0 /\ j > 0
                      THEN RAdd(LeastCost(i - 1, j - 1), StepCost(<<i - 1, j - 1>>, <<i, j>>))
                      ELSE Inf
             skip_lyrics == IF i > 0 THEN RAdd(LeastCost(i - 1, j), R(5, 10)) ELSE Inf
             skip_transcribed == IF j > 0 THEN RAdd(LeastCost(i, j - 1), R(3, 10)) ELSE Inf
         IN RMin(match, RMin(skip_lyrics, skip_transcribed))

\* The (i-1, j-1, similarity) of the match steps through the cells that reach
\* the threshold, first match first.
RECURSIVE MatchesOf(_)
MatchesOf(cells) ==
    IF Len(cells) <= 1 THEN <<>>
    ELSE LET to == cells[1]
             sim == word_similarity(lyrics_words[to[1]], transcribed_words[to[2]].word)
         IN MatchesOf(Tail(cells)) \o
            (IF cells[2] = <<to[1] - 1, to[2] - 1>> /\ RLe(similarity_threshold, sim)
             THEN << <<to[1] - 1, to[2] - 1, sim>> >> ELSE <<>>)

\* C5 (as claimed): the path dtw_align backtracks is a minimum-total-cost
\* alignment from (0, 0) to (n, m), and the returned matches are its match
\* steps whose similarity reaches the threshold.
BacktrackedPathOptimal ==
    (pc = "dtw_align" /\ Len(lyrics_words) > 0 /\ Len(transcribed_words) > 0) =>
        /\ backtracked[Len(backtracked)] = <<0, 0>>
        /\ CellsCost(backtracked)
              = LeastCost(Len(lyrics_words), Len(transcribed_words))
        /\ alignments = MatchesOf(backtracked)

-----------------------------------------------------------------------------
\* segment_based_alignment on its own.

\* Bounds of the segment_based_alignment inputs.
MaxLines == 2
MaxSegments == 2

LineTexts == { <<"a">>, <<"B", "!">>, <<"a", " ", "b">> }
SegmentTexts == { <<"a">>, <<"b">> }
SegmentTimes == { <<Zero, One>>, <<One, RInt(2)>>, <<RInt(2), RInt(4)>> }
SegmentChoices == { Segment(t, se[1], se[2], <<>>) : t \in SegmentTexts, se \in SegmentTimes }
SegDurations == { RInt(4), RInt(5) }
\* The durations tried when the recognizer found nothing: an empty audio file
\* as well.
SilentDurations == SegDurations \cup { Zero }

\* A verse of which the recognizer made a single segment: VerseLines lines.
VerseLines == 4

\* A whole song: SongLines lyric lines, all "B!" but the `sung`-th, which is
\* "a", against SongSegments one-second segments, all recognized as "x" but
\* the `heard`-th, which is "a".
SongLines == 11
SongSegments == 55
SongLyrics(sung) ==
    [k \in 1..SongLines |-> IF k = sung THEN <<"a">> ELSE <<"B", "!">>]
SongRecognized(heard) ==
    [j \in 1..SongSegments |->
        Segment(IF j = heard THEN <<"a">> ELSE <<"x">>, RInt(j - 1), RInt(j), <<>>)]
\* The places of the line "a" and of the segment "a" that are tried.
SongSung == { 4, 7 }
SongHeard == { 2, 16, 17, 31 }

InitSeg ==
    /\ pc = "start"
    /\ \/ /\ lyrics_lines \in SeqsUpTo(LineTexts, MaxLines)
          /\ segments \in SeqsUpTo(SegmentChoices, MaxSegments)
          /\ duration \in IF segments = <<>> THEN SilentDurations ELSE SegDurations
       \/ /\ lyrics_lines \in [1..VerseLines -> LineTexts]
          /\ segments \in [1..1 -> SegmentChoices]
          /\ duration \in SegDurations
       \/ /\ \E sung \in SongSung : lyrics_lines = SongLyrics(sung)
          /\ \E heard \in SongHeard : segments = SongRecognized(heard)
          /\ duration = RInt(SongSegments)
    /\ line_timings = None
    /\ RepairIdle /\ DtwIdle /\ AlignIdle /\ SimIdle /\ JsonIdle /\ ProjectsIdle

\* The call segment_based_alignment(lyrics_lines, segments, duration).
SegmentBasedAlignment ==
    /\ pc = "start"
    /\ line_timings' = segment_based_alignment(lyrics_lines, segments, duration)
    /\ pc' = "segment_based_alignment"
    /\ UNCHANGED <<lyrics_lines, segments, duration, repairVars, dtwVars, alignVars,
                   simVars, jsonVars, projectVars>>

NextSeg == SegmentBasedAlignment

SpecSeg == InitSeg /\ [][NextSeg]_vars

-----------------------------------------------------------------------------
\* Properties of segment_based_alignment.

Anchored == pc = "segment_based_alignment"

\* C9 (as claimed): when the segments' start times are non-decreasing, the
\* anchors' start times are non-decreasing in line order.
AnchorsMonotonic ==
    (/\ Anchored
     /\ \A j \in DOMAIN segments :
           j > 1 => RLe(segments[j - 1].start, segments[j].start))
    => \A k \in DOMAIN line_timings :
           k > 1 => RLe(line_timings[k - 1][2], line_timings[k][2])

-----------------------------------------------------------------------------
\* align_lyrics as a whole.

\* Bounds of the align_lyrics inputs.
MaxRawLines == 3
MaxResultSegments == 2

\* The lines a lyric text is typed as: a blank line, a section header, a
\* header after a space, and lyric lines with spaces around their words.
RawLineChoices ==
    { <<>>,
      <<"[", "a">>,
      <<" ", "[">>,
      <<" ", "a", " ", " ", "a", "b", " ">>,
      <<"c", "b">> }

\* '\n'.join(lines)
RECURSIVE JoinLines(_)
JoinLines(lines) ==
    IF Len(lines) = 0 THEN <<>>
    ELSE IF Len(lines) = 1 THEN lines[1]
    ELSE lines[1] \o <<"\n">> \o JoinLines(Tail(lines))

\* Segments the recognizer can return: "a b" heard well; " cb " heard over
\* 1.5 s; "a" that it could not align followed by "ab".
ResultSegmentChoices ==
    { Segment(<<"a", " ", "b">>, Zero, One,
              << WordInfo(<<"a">>, Zero, R(5, 10), One),
                 WordInfo(<<"b">>, R(6, 10), One, R(9, 10)) >>),
      Segment(<<"c", "b">>, RInt(2), R(35, 10),
              << WordInfo(<<" ", "c", "b">>, RInt(2), R(35, 10), None) >>),
      Segment(<<"a", " ", "a", "b">>, RInt(3), RInt(4),
              << WordInfo(<<"a">>, None, None, None),
                 WordInfo(<<"a", "b">>, RInt(3), R(39, 10), R(8, 10)) >>) }

Untitled == <<"U", "n", "t", "i", "t", "l", "e", "d">>

\* The end-to-end scenario: the text "hello\nworld" against the recognized
\* words ("hello", 0.0, 0.5, score 1.0) and ("word", 0.6, 1.0, score 0.9)
\* in an audio of 2 s.
hello == <<"h", "e", "l", "l", "o">>
world == <<"w", "o", "r", "l", "d">>
word == <<"w", "o", "r", "d">>
ScenarioLines == <<hello, world>>
ScenarioWords ==
    << WordInfo(hello, Zero, R(5, 10), One),
       WordInfo(word, R(6, 10), One, R(9, 10)) >>
\* The recognizer returns its words in segments: both in one segment, or
\* one segment for each.
ScenarioSegments ==
    { << Segment(hello \o <<" ">> \o word, Zero, One, ScenarioWords) >>,
      << Segment(hello, Zero, R(5, 10), << ScenarioWords[1] >>),
         Segment(word, R(6, 10), One, << ScenarioWords[2] >>) >> }

InitAlign ==
    /\ pc = "start"
    /\ \/ /\ raw_lines \in SeqsUpTo(RawLineChoices, MaxRawLines)
          /\ segments \in SeqsUpTo(ResultSegmentChoices, MaxResultSegments)
          /\ duration = RInt(4)
       \/ /\ raw_lines = ScenarioLines
          /\ segments \in ScenarioSegments
          /\ duration = RInt(2)
    /\ lyrics_text = JoinLines(raw_lines)
    /\ result = None
    /\ lyrics_lines = <<>>
    /\ line_timings = None
    /\ RepairIdle /\ DtwIdle /\ SimIdle /\ JsonIdle /\ ProjectsIdle

\* The call align_lyrics(audio_path, lyrics_text), the recognizer having
\* returned `segments` for an audio of `duration` seconds.
AlignLyrics ==
    /\ pc = "start"
    /\ \E r \in align_lyrics(segments, lyrics_text, Untitled, duration) :
          /\ transcribed_words' = r.transcribed_words
          /\ lyrics_lines' = r.lyrics_lines
          /\ line_timings' = r.line_timings
          /\ lyrics_words' = r.all_lyrics_words
          /\ alignments' = r.dtw_alignments
          /\ backtracked' = r.cells
          /\ before' = r.draft
          /\ timed_lines' = r.timed_lines
          /\ result' = r.returned
    /\ similarity_threshold' = AlignThreshold
    /\ pc' = "align_lyrics"
    /\ UNCHANGED <<raw_lines, lyrics_text, segments, duration, twin_lines, changed_line,
                   simVars, jsonVars, projectVars>>

NextAlign == AlignLyrics

SpecAlign == InitAlign /\ [][NextAlign]_vars

-----------------------------------------------------------------------------
\* Properties of align_lyrics.

\* The raw lines that are lyric lines: not empty once trimmed and not
\* starting with "[".
IsLyricLine(raw) == Strip(raw) # <<>> /\ Head(Strip(raw)) # "["
LyricLinesOf(raws) ==
    LET kept == SelectSeq(raws, IsLyricLine) IN [k \in DOMAIN kept |-> Strip(kept[k])]

WordsOf(line) == [k \in DOMAIN line.words |-> line.words[k].word]

\* C1: align_lyrics returns one TimedLine per lyric line of the text, in
\* order, each with one TimedWord per whitespace-delimited word of the
\* line, in order and in the lyric's spelling; the repair pass neither adds,
\* removes nor reorders lines or words.
OneTimedWordPerLyricWord ==
    pc = "align_lyrics" =>
        LET expected == LyricLinesOf(raw_lines) IN
        /\ Len(result.lines) = Len(expected)
        /\ \A k \in DOMAIN expected :
              /\ result.lines[k].text = expected[k]
              /\ WordsOf(result.lines[k]) = Split(expected[k])
        /\ Len(before) = Len(result.lines)
        /\ \A k \in DOMAIN before :
              /\ before[k].text = result.lines[k].text
              /\ WordsOf(before[k]) = WordsOf(result.lines[k])

\* A text with a dropped line and a two-word line, of which dtw_align
\* matched some words and not others, and which the repair pass changed.
OneTimedWordPerLyricWordWitness ==
    /\ pc = "align_lyrics"
    /\ Len(result.lines) < Len(raw_lines)
    /\ \E k \in DOMAIN result.lines : Len(result.lines[k].words) >= 2
    /\ Len(result.lines) >= 2
    /\ Len(alignments) > 0
    /\ Len(alignments) < Len(lyrics_words)
    /\ before # timed_lines

\* C11: when no lyric word is matched (no recognized word, or no match step
\* of the backtracked path reaches the threshold), dtw_align returns the
\* empty list, align_lyrics still returns a document, and every lyric word
\* has a TimedWord made by interpolation (0.25 s long in the draft) with
\* confidence 0.3.
NoMatchInterpolates ==
    (/\ pc = "align_lyrics"
     /\ (transcribed_words = <<>> \/ MatchesOf(backtracked) = <<>>))
    => /\ alignments = <<>>
       /\ result # None
       /\ Len(result.lines) = Len(lyrics_lines)
       /\ \A k \in DOMAIN result.lines :
             /\ WordsOf(result.lines[k]) = Split(lyrics_lines[k])
             /\ \A w \in DOMAIN result.lines[k].words :
                   result.lines[k].words[w].confidence = R(3, 10)
       /\ \A k \in DOMAIN before : \A w \in DOMAIN before[k].words :
             /\ before[k].words[w].confidence = R(3, 10)
             /\ before[k].words[w].end = RAdd(before[k].words[w].start, R(25, 100))

\* A text with a two-word line against recognized words of which none was
\* matched.
NoMatchInterpolatesWitness ==
    /\ pc = "align_lyrics"
    /\ transcribed_words # <<>>
    /\ alignments = <<>>
    /\ \E k \in DOMAIN result.lines : Len(result.lines[k].words) >= 2

-----------------------------------------------------------------------------
\* The triples dtw_align returns.

\* The match steps among the cells backtracked (last cell first): the
\* positions k whose successor is the cell diagonally before.
MatchSteps(cells) ==
    { k \in 1..(Len(cells) - 1) : cells[k + 1] = <<cells[k][1] - 1, cells[k][2] - 1>> }

\* C12: every returned triple (i, j, s) has s = word_similarity(lyrics[i],
\* recognized[j].word) and s >= the threshold; the returned list holds one
\* triple for each match step of the backtracked path that reaches the
\* threshold and none for a match step below it.
MatchesReachThreshold ==
    pc = "dtw_align" =>
        /\ \A k \in DOMAIN alignments :
              LET a == alignments[k] IN
              /\ a[3] = word_similarity(lyrics_words[a[1] + 1],
                                        transcribed_words[a[2] + 1].word)
              /\ RLe(similarity_threshold, a[3])
        /\ \A k \in MatchSteps(backtracked) :
              LET i == backtracked[k][1]
                  j == backtracked[k][2]
                  s == word_similarity(lyrics_words[i], transcribed_words[j].word)
              IN RLe(similarity_threshold, s)
                    <=> \E a \in DOMAIN alignments : alignments[a] = <<i - 1, j - 1, s>>
        /\ Len(alignments) <= Cardinality(MatchSteps(backtracked))

\* A path with a match step exactly at the threshold, which is returned,
\* and a match step below it, which is not.
MatchesReachThresholdWitness ==
    /\ pc = "dtw_align"
    /\ \E k \in DOMAIN alignments : alignments[k][3] = similarity_threshold
    /\ Cardinality(MatchSteps(backtracked)) > Len(alignments)

-----------------------------------------------------------------------------
\* The end-to-end scenario.

InScenario ==
    /\ pc = "align_lyrics"
    /\ raw_lines = ScenarioLines
    /\ segments \in ScenarioSegments
    /\ duration = RInt(2)

\* C13: in the scenario the document has two lines; line 1 is the single
\* word "hello" timed [0.0, 0.5] with confidence 1.0 and line 2 the single
\* word "world" timed [0.6, 1.0], the times of the recognized word "word".
ScenarioTimed ==
    InScenario =>
        /\ Len(result.lines) = 2
        /\ result.lines[1].words = << TimedWord(hello, Zero, R(5, 10), One) >>
        /\ Len(result.lines[2].words) = 1
        /\ result.lines[2].words[1].word = world
        /\ result.lines[2].words[1].start = R(6, 10)
        /\ result.lines[2].words[1].end = One
        /\ \E a \in DOMAIN alignments :
              /\ alignments[a][1] = 1 /\ alignments[a][2] = 1
              /\ transcribed_words[2].word = word

\* The scenario with the recognizer's words in one segment.
ScenarioTimedWitness ==
    InScenario /\ Len(segments) = 1 /\ Len(result.lines) = 2

\* C14 (as claimed): in the scenario "world" is matched to "word" with
\* similarity 0.9 by the substring rule, and its confidence is 0.81.
ScenarioWorldBySubstring ==
    InScenario =>
        /\ Contains(world, word) \/ Contains(word, world)
        /\ alignments[2] = <<1, 1, R(9, 10)>>
        /\ result.lines[2].words[1].confidence = R(81, 100)

\* C14 (amended): in the scenario "world" is matched to "word" with
\* similarity 0.8, by the prefix rule (neither word contains the other,
\* their phonetic codes differ, their first three letters agree and
\* 1 - 1/5 > 0.7), and its confidence is 0.8 x 0.9 = 0.72.
ScenarioWorldByPrefix ==
    InScenario =>
        /\ ~Contains(world, word) /\ ~Contains(word, world)
        /\ soundex(world) # soundex(word)
        /\ SubSeq(world, 1, 3) = SubSeq(word, 1, 3)
        /\ levenshtein_distance(world, word) = 1
        /\ alignments[2] = <<1, 1, R(8, 10)>>
        /\ result.lines[2].words[1].confidence = R(72, 100)

\* The scenario with one segment for each recognized word.
ScenarioWorldByPrefixWitness ==
    InScenario /\ Len(segments) = 2 /\ Len(alignments) = 2

-----------------------------------------------------------------------------
\* word_similarity on its own.

\* Bound of the word_similarity inputs: the length of the generated words.
MaxWordLen == 3

SimAlphabet == { "a", "b", "'" }

cat == <<"c", "a", "t">>
dont == <<"d", "o", "n", "t">>
don_t == <<"d", "o", "n", "'", "t">>
night == <<"n", "i", "g", "h", "t">>
nite == <<"n", "i", "t", "e">>

\* Every word over SimAlphabet up to MaxWordLen characters (the empty word
\* among them), and the words the documentation and the tests name.
SimWords ==
    SeqsUpTo(SimAlphabet, MaxWordLen)
        \cup { cat, <<"C", "a", "t">>, dont, don_t, night, nite, world, word,
               <<"x">>, <<"-">>, <<"_">>, <<"_", "a">>, <<"A", "b", "7">> }

InitSim ==
    /\ pc = "start"
    /\ arg_word1 \in SimWords
    /\ arg_word2 \in SimWords
    /\ similarity = None
    /\ duration = None
    /\ RepairIdle /\ DtwIdle /\ SegIdle /\ AlignIdle /\ JsonIdle /\ ProjectsIdle

\* The call word_similarity(arg_word1, arg_word2).
WordSimilarity ==
    /\ pc = "start"
    /\ similarity' = word_similarity(arg_word1, arg_word2)
    /\ pc' = "word_similarity"
    /\ UNCHANGED <<arg_word1, arg_word2, duration, repairVars, dtwVars, segVars,
                   alignVars, jsonVars, projectVars>>

NextSim == WordSimilarity

SpecSim == InitSim /\ [][NextSim]_vars

-----------------------------------------------------------------------------
\* Properties of word_similarity.

Scored == pc = "word_similarity"

\* C15 (as claimed): word_similarity("dont", "don't") is 0.9, the score of
\* the substring rule.
DontScoredBySubstring ==
    (Scored /\ arg_word1 = dont /\ arg_word2 = don_t) => similarity = R(9, 10)

\* C16 (as claimed): word_similarity("night", "nite") is at least 0.85,
\* the two words having the same phonetic code.
NightNitePhonetic ==
    (Scored /\ arg_word1 = night /\ arg_word2 = nite) =>
        /\ soundex(night) = soundex(nite)
        /\ RLe(R(85, 100), similarity)

\* C16 (amended): "night" and "nite" get the phonetic codes N230 and N300,
\* which differ, and word_similarity("night", "nite") is the edit-distance
\* score 1 - 3/5 = 0.4.
NightNiteByEditDistance ==
    (Scored /\ arg_word1 = night /\ arg_word2 = nite) =>
        /\ soundex(night) = <<"N", "2", "3", "0">>
        /\ soundex(nite) = <<"N", "3", "0", "0">>
        /\ levenshtein_distance(night, nite) = 3
        /\ similarity = R(4, 10)

\* word_similarity("night", "nite") has returned.
NightNiteByEditDistanceWitness ==
    Scored /\ arg_word1 = night /\ arg_word2 = nite /\ similarity # None

\* A string lowercased and without every character that is not a letter or
\* a digit.
IsAlphanumeric(c) == IsLower(c) \/ IsUpper(c) \/ c \in Digits
Alphanumeric(str) == SelectSeq(Lower(str), IsAlphanumeric)

\* C17 (as claimed): if either string is empty once lowercased and stripped
\* of every character that is not a letter or a digit, word_similarity
\* returns 0.
EmptyNormalizedScoresZero ==
    (Scored /\ (Alphanumeric(arg_word1) = <<>> \/ Alphanumeric(arg_word2) = <<>>))
        => similarity = Zero

\* C18 (as claimed): word_similarity returns a value in [0, 1], and exactly
\* 1.0 when the two normalized strings are equal and not empty.
SimilarityInUnitRange ==
    Scored =>
        /\ RLe(Zero, similarity) /\ RLe(similarity, One)
        /\ (Alphanumeric(arg_word1) = Alphanumeric(arg_word2)
              /\ Alphanumeric(arg_word1) # <<>>) => similarity = One

-----------------------------------------------------------------------------
\* LyricsTimingData.to_json and LyricsTimingData.from_json
\*
\* The file holds a JSON value.  Its objects and arrays are modelled as
\* records and sequences; its strings and numbers as the characters
\* json.dump writes for them, which json.load reads back.

DigitChars == <<"0", "1", "2", "3", "4", "5", "6", "7", "8", "9">>

\* The same with only the quote escaped.
JsonEscapeQuoteOnly(c) ==
    IF c = "\"" THEN <<"\\", "\"">> ELSE <<c>>

\* json.dump on one character of a str: quote, backslash, newline and tab
\* are written as two characters.
JsonEscape(c) ==
    IF c = "\"" THEN <<"\\", "\"">>
    ELSE IF c = "\\" THEN <<"\\", "\\">>
    ELSE IF c = "\n" THEN <<"\\", "n">>
    ELSE IF c = "\t" THEN <<"\\", "t">>
    ELSE <<c>>

\* json.dump on a str.
DumpString(str) ==
    <<"\"">> \o Concat([k \in DOMAIN str |-> JsonEscape(str[k])]) \o <<"\"">>

\* json.load on the characters between the quotes of a string, from the
\* k-th on.
RECURSIVE LoadChars(_, _)
LoadChars(chars, k) ==
    IF k > Len(chars) THEN <<>>
    ELSE IF chars[k] = "\\"
    THEN LET e == chars[k + 1]
         IN << IF e = "n" THEN "\n" ELSE IF e = "t" THEN "\t" ELSE e >>
                \o LoadChars(chars, k + 2)
    ELSE <<chars[k]>> \o LoadChars(chars, k + 1)

\* json.load on a string.
LoadString(chars) == LoadChars(SubSeq(chars, 2, Len(chars) - 1), 1)

\* The decimal digits of a natural number.
RECURSIVE DumpNat(_)
DumpNat(n) ==
    IF n < 10 THEN <<DigitChars[n + 1]>>
    ELSE DumpNat(n \div 10) \o <<DigitChars[(n % 10) + 1]>>

\* The decimal digits of the fraction r / d, 0 < r < d, d dividing a power
\* of ten.
RECURSIVE DumpFraction(_, _)
DumpFraction(r, d) ==
    IF r = 0 THEN <<>>
    ELSE <<DigitChars[((r * 10) \div d) + 1]>> \o DumpFraction((r * 10) % d, d)

\* json.dump on a float: float.__repr__, the shortest decimal that reads
\* back as the same float, always with a fractional part ("2.0", "0.43").
DumpFloat(x) ==
    LET a == Abs(x[1])
    IN (IF x[1] < 0 THEN <<"-">> ELSE <<>>)
           \o DumpNat(a \div x[2]) \o <<".">>
           \o (IF a % x[2] = 0 THEN <<"0">> ELSE DumpFraction(a % x[2], x[2]))

\* The number a sequence of digits stands for.
RECURSIVE LoadNat(_)
LoadNat(digits) ==
    IF Len(digits) = 0 THEN 0
    ELSE 10 * LoadNat(SubSeq(digits, 1, Len(digits) - 1))
            + (LetterIndex(digits[Len(digits)], DigitChars) - 1)

RECURSIVE Power10(_)
Power10(k) == IF k = 0 THEN 1 ELSE 10 * Power10(k - 1)

\* json.load on a number with a fractional part.
LoadFloat(chars) ==
    LET negative == chars[1] = "-"
        body == IF negative THEN Tail(chars) ELSE chars
        dot == CHOOSE k \in DOMAIN body : body[k] = "."
        whole == LoadNat(SubSeq(body, 1, dot - 1))
        fraction == SubSeq(body, dot + 1, Len(body))
        value == R(whole * Power10(Len(fraction)) + LoadNat(fraction),
                   Power10(Len(fraction)))
    IN IF negative THEN RSub(Zero, value) ELSE value

\* dataclasses.asdict(w) as json.dump writes it (line 369).
DumpWord(w) ==
    [word |-> DumpString(w.word), start |-> DumpFloat(w.start),
     end |-> DumpFloat(w.end), confidence |-> DumpFloat(w.confidence)]

\* Lines 361-375: the value json.dump writes to the file.
to_json(self) ==
    [title |-> DumpString(self.title),
     duration |-> DumpFloat(self.duration),
     lines |-> [k \in DOMAIN self.lines |->
                  [text |-> DumpString(self.lines[k].text),
                   start |-> DumpFloat(self.lines[k].start),
                   end |-> DumpFloat(self.lines[k].end),
                   words |-> [w \in DOMAIN self.lines[k].words |->
                                DumpWord(self.lines[k].words[w])]]]]

\* TimedWord(**w) on a word json.load read (line 386).
LoadWord(w) ==
    TimedWord(LoadString(w.word), LoadFloat(w.start), LoadFloat(w.end),
              LoadFloat(w.confidence))

\* Lines 381-398: the document built from the value json.load reads.
from_json(data) ==
    LyricsTimingData(
        LoadString(data.title),
        LoadFloat(data.duration),
        [k \in DOMAIN data.lines |->
            TimedLine(LoadString(data.lines[k].text),
                      LoadFloat(data.lines[k].start),
                      LoadFloat(data.lines[k].end),
                      [w \in DOMAIN data.lines[k].words |->
                          LoadWord(data.lines[k].words[w])])])

-----------------------------------------------------------------------------
\* Saving a document and loading it back.

\* Bound of the saved documents: their number of lines.
MaxDocLines == 2

\* Titles: empty, with quotes, with a backslash before an n, with a newline.
DocTitles ==
    { <<>>,
      <<"a", "\"", "b", "\"">>,
      <<"\\", "n">>,
      <<"x", "\n", "\t", "y">> }

DocDurations == { Zero, RInt(2), R(1025, 100) }

\* Lines a document can hold: two well-timed words; a quoted word timed past
\* the audio's end; a line without words; a draft line with a negative
\* start and a backslash in its text.
DocLineChoices ==
    { TimedLine(<<"l", "a", " ", "l", "a">>, Zero, R(93, 100),
                << TimedWord(la, Zero, R(5, 10), One),
                   TimedWord(la, R(58, 100), R(93, 100), R(72, 100)) >>),
      TimedLine(<<"\"", "h", "i", "\"">>, R(19, 10), R(21, 10),
                << TimedWord(<<"\"", "h", "i", "\"">>, R(19, 10), R(21, 10), R(3, 10)) >>),
      TimedLine(<<>>, Zero, Zero, <<>>),
      TimedLine(<<"a", "\\", "b">>, R(-1, 2), RInt(50),
                << TimedWord(<<"a", "\\", "b">>, R(-1, 2), RInt(50), R(4, 10)) >>) }

InitJson ==
    /\ pc = "start"
    /\ \E t \in DocTitles, d \in DocDurations,
          ls \in SeqsUpTo(DocLineChoices, MaxDocLines) :
          result = LyricsTimingData(t, d, ls)
    /\ saved = None
    /\ loaded = None
    /\ duration = None
    /\ raw_lines = <<>>
    /\ lyrics_text = <<>>
    /\ RepairIdle /\ DtwIdle /\ SegIdle /\ SimIdle /\ ProjectsIdle

\* The call result.to_json(path).
ToJson ==
    /\ pc = "start"
    /\ saved' = to_json(result)
    /\ pc' = "to_json"
    /\ UNCHANGED <<loaded, duration, repairVars, dtwVars, segVars, alignVars, simVars,
                   projectVars>>

\* The call LyricsTimingData.from_json(path) on the file to_json wrote.
FromJson ==
    /\ pc = "to_json"
    /\ loaded' = from_json(saved)
    /\ pc' = "from_json"
    /\ UNCHANGED <<saved, duration, repairVars, dtwVars, segVars, alignVars, simVars,
                   projectVars>>

NextJson == ToJson \/ FromJson

SpecJson == InitJson /\ [][NextJson]_vars

\* C19: a document saved with to_json and read back with from_json has the
\* same title, duration and lines in the same order, each line with the
\* same text, start and end, and each word with the same word, start, end
\* and confidence.
JsonRoundTrip ==
    pc = "from_json" =>
        /\ loaded.title = result.title
        /\ loaded.duration = result.duration
        /\ Len(loaded.lines) = Len(result.lines)
        /\ \A k \in DOMAIN result.lines :
              LET a == loaded.lines[k]
                  b == result.lines[k]
              IN /\ a.text = b.text /\ a.start = b.start /\ a.end = b.end
                 /\ Len(a.words) = Len(b.words)
                 /\ \A w \in DOMAIN b.words :
                       /\ a.words[w].word = b.words[w].word
                       /\ a.words[w].start = b.words[w].start
                       /\ a.words[w].end = b.words[w].end
                       /\ a.words[w].confidence = b.words[w].confidence

\* A document read back whose title has a backslash, with two different
\* lines, one of two words and one with a negative time, and whose file
\* does not hold the title as it is.
JsonRoundTripWitness ==
    /\ pc = "from_json"
    /\ \E k \in DOMAIN result.title : result.title[k] = "\\"
    /\ saved.title # <<"\"">> \o result.title \o <<"\"">>
    /\ Len(result.lines) = 2
    /\ \E k \in DOMAIN result.lines : Len(result.lines[k].words) = 2
    /\ \E k \in DOMAIN result.lines : RLt(result.lines[k].start, Zero)

-----------------------------------------------------------------------------
\* The lines of the document align_lyrics returns.

\* C20: in the document align_lyrics returns, every line's start is its
\* first word's start and its end is its last word's end.
LineBoundsFollowWords ==
    pc = "align_lyrics" =>
        \A k \in DOMAIN result.lines :
            LET line == result.lines[k] IN
            /\ Len(line.words) > 0
            /\ line.start = line.words[1].start
            /\ line.end = line.words[Len(line.words)].end

\* A returned line of two words or more to which the repair pass gave
\* another end than its draft had.
LineBoundsFollowWordsWitness ==
    /\ pc = "align_lyrics"
    /\ \E k \in DOMAIN result.lines :
          /\ Len(result.lines[k].words) >= 2
          /\ result.lines[k].end # before[k].end

-----------------------------------------------------------------------------
\* The fallback of segment_based_alignment when the recognizer found nothing.

\* C21: with no segments, the n lyric lines are spread evenly over the
\* duration D: line i (from 0) gets the anchor [i*D/n, (i+1)*D/n]; with no
\* lyric line the result is the empty list, with D = 0 every anchor is
\* [0, 0], and the divisor of line 289 is never zero.
EvenlyDistributed ==
    (Anchored /\ segments = <<>>)
    => LET n == Len(lyrics_lines)
       IN /\ IntMax(n, 1) # 0
          /\ Len(line_timings) = n
          /\ \A k \in DOMAIN line_timings :
                /\ line_timings[k][1] = k - 1
                /\ line_timings[k][2] = RDiv(RMul(RInt(k - 1), duration), RInt(n))
                /\ line_timings[k][3] = RDiv(RMul(RInt(k), duration), RInt(n))
          /\ (n = 0 => line_timings = <<>>)
          /\ (duration = Zero
                => \A k \in DOMAIN line_timings :
                      line_timings[k][2] = Zero /\ line_timings[k][3] = Zero)

\* Two lines spread over 5 seconds with no segment: the second one gets
\* [2.5, 5].
EvenlyDistributedWitness ==
    /\ Anchored
    /\ segments = <<>>
    /\ Len(lyrics_lines) = 2
    /\ duration = RInt(5)
    /\ line_timings = << <<0, Zero, R(5, 2)>>, <<1, R(5, 2), RInt(5)>> >>

-----------------------------------------------------------------------------
\* dtw_align against words the recognizer inserted.

\* The j-th recognized word is unlike every lyric word.
Inserted(j) ==
    \A i \in DOMAIN lyrics_words :
        word_similarity(lyrics_words[i], transcribed_words[j].word) = Zero

\* The recognized positions (from 1) of the words that were not inserted.
RECURSIVE SungPositions(_)
SungPositions(j) ==
    IF j > Len(transcribed_words) THEN <<>>
    ELSE (IF Inserted(j) THEN <<>> ELSE <<j>>) \o SungPositions(j + 1)

\* The recognized words are the lyric words with unlike words inserted.
LyricsWithInsertions ==
    /\ pc = "dtw_align"
    /\ Len(lyrics_words) > 0
    /\ Len(SungPositions(1)) = Len(lyrics_words)
    /\ \A i \in DOMAIN lyrics_words :
          transcribed_words[SungPositions(1)[i]].word = lyrics_words[i]

\* C22 (as claimed): when the recognized words are the lyric words with
\* unlike words inserted at any positions, every lyric word is matched to
\* its identical recognized word.
InsertionsSkipped ==
    LyricsWithInsertions
    => alignments = [i \in DOMAIN lyrics_words |->
                        <<i - 1, SungPositions(1)[i] - 1, One>>]

-----------------------------------------------------------------------------
\* The segments segment_based_alignment gives to the lines.

\* The value of best_seg at line 335 for each line from line i (from 0) on:
\* the index of the segment the line is anchored on, or NoSegment.
RECURSIVE ChosenSegments(_, _)
ChosenSegments(i, used_segments) ==
    IF i >= Len(lyrics_lines) THEN <<>>
    ELSE LET best == BestSegment(lyrics_lines, segments, i, used_segments, 1,
                                 [best_seg |-> NoSegment, best_score |-> RInt(-1)])
         IN IF best.best_seg # NoSegment /\ RLt(R(2, 10), best.best_score)
            THEN <<best.best_seg>>
                    \o ChosenSegments(i + 1, used_segments \cup { best.best_seg })
            ELSE <<NoSegment>> \o ChosenSegments(i + 1, used_segments)

\* No segment is the anchor of two lines.
SegmentsNotReused ==
    (Anchored /\ segments # <<>>)
    => LET chosen == ChosenSegments(0, {})
       IN \A k1, k2 \in DOMAIN chosen :
             (k1 # k2 /\ chosen[k1] # NoSegment) => chosen[k1] # chosen[k2]

\* C24 (as claimed): the segments chosen for the segment-anchored lines are
\* pairwise distinct, each line so anchored carries its segment's times, and
\* each chosen index lies within max(3, segment_count div 4) of the line's
\* expected index floor(i * segment_count / line_count).
SegmentsOncePerLine ==
    (Anchored /\ segments # <<>>)
    => LET chosen == ChosenSegments(0, {})
       IN /\ SegmentsNotReused
          /\ \A k \in DOMAIN chosen :
                chosen[k] # NoSegment
                => /\ line_timings[k] = <<k - 1, segments[chosen[k] + 1].start,
                                          segments[chosen[k] + 1].end>>
                   /\ Abs(chosen[k] - ExpectedSegmentExact(k - 1, Len(lyrics_lines),
                                                           Len(segments)))
                         <= IntMax(3, Len(segments) \div 4)

-----------------------------------------------------------------------------
\* The draft align_lyrics hands to the repair pass.

\* The number of lyric words in the lines before line k (from 1).
RECURSIVE WordsBefore(_)
WordsBefore(k) ==
    IF k <= 1 THEN 0 ELSE WordsBefore(k - 1) + Len(Split(lyrics_lines[k - 1]))

\* The alignments dtw_align returned for the p-th word (from 1) of line k
\* (from 1).
MatchesFor(k, p) ==
    { a \in DOMAIN alignments : alignments[a][1] = WordsBefore(k) + p - 1 }

\* C26: in the draft, before the repair pass, a word at position p (from 0)
\* of a k-word line that has no match starts at
\* anchor_start + (anchor_end - anchor_start) * p / k, or at the previous
\* word's end + 0.05 when the line has a previous word and that is later,
\* ends 0.25 s after its start and has confidence 0.3; a matched word has the
\* recognized word's start and end and the confidence similarity * score.
DraftWordTimes ==
    pc = "align_lyrics" =>
        /\ Len(before) = Len(lyrics_lines)
        /\ \A k \in DOMAIN before :
              LET words == before[k].words
                  count == Len(Split(lyrics_lines[k]))
                  anchor_start == line_timings[k][2]
                  anchor_end == line_timings[k][3]
              IN /\ Len(words) = count
                 /\ line_timings[k][1] = k - 1
                 /\ \A p \in DOMAIN words :
                       IF MatchesFor(k, p) = {}
                       THEN LET share == RAdd(anchor_start,
                                              RDiv(RMul(RSub(anchor_end, anchor_start),
                                                        RInt(p - 1)),
                                                   RInt(count)))
                                start == IF p > 1
                                         THEN RMax(share, RAdd(words[p - 1].end, R(5, 100)))
                                         ELSE share
                            IN /\ words[p].start = start
                               /\ words[p].end = RAdd(start, R(25, 100))
                               /\ words[p].confidence = R(3, 10)
                       ELSE \E a \in MatchesFor(k, p) :
                               LET heard == transcribed_words[alignments[a][2] + 1]
                               IN /\ words[p].start = heard.start
                                  /\ words[p].end = heard.end
                                  /\ words[p].confidence
                                        = RMul(alignments[a][3], heard.score)

\* The share of its line's anchor at which word p (from 1) of line k starts.
AnchorShare(k, p) ==
    RAdd(line_timings[k][2],
         RDiv(RMul(RSub(line_timings[k][3], line_timings[k][2]), RInt(p - 1)),
              RInt(Len(before[k].words))))

\* A draft with a matched word scored below 1 by the recognizer, an
\* unmatched word placed at its share of the anchor, and an unmatched word
\* pushed behind the word before it.
DraftWordTimesWitness ==
    /\ pc = "align_lyrics"
    /\ \E a \in DOMAIN alignments :
          RLt(transcribed_words[alignments[a][2] + 1].score, One)
    /\ \E k \in DOMAIN before : \E p \in DOMAIN before[k].words :
          p > 1 /\ MatchesFor(k, p) = {} /\ before[k].words[p].start = AnchorShare(k, p)
    /\ \E k \in DOMAIN before : \E p \in DOMAIN before[k].words :
          /\ p > 1 /\ MatchesFor(k, p) = {}
          /\ RLt(AnchorShare(k, p), before[k].words[p].start)

-----------------------------------------------------------------------------
\* The repair pass on single words.

\* The line was repaired on the light-cleanup path: it has words and its
\* draft was not broken.
LightlyCleaned(i) == Len(before[i].words) > 0 /\ ~LineSeemsBroken(before[i])

\* What is left of a draft word's length once its end is clamped into
\* [0, duration] and its start is where the repair pass put it.
ClampedLength(i, k) ==
    RSub(RMax(Zero, RMin(before[i].words[k].end, duration)),
         timed_lines[i].words[k].start)

WordsDoNotOverlap ==
    Repaired =>
        \A i \in DOMAIN timed_lines : \A k \in DOMAIN timed_lines[i].words :
            k > 1 => RLe(timed_lines[i].words[k - 1].end, timed_lines[i].words[k].start)

\* A lightly cleaned line in whose draft a word started before the end of
\* the word before it, and at or after its start.
WordsDoNotOverlapWitness ==
    /\ pc = "repaired"
    /\ \E i \in DOMAIN timed_lines :
          /\ LightlyCleaned(i)
          /\ \E k \in DOMAIN before[i].words :
                /\ k > 1
                /\ RLt(before[i].words[k].start, before[i].words[k - 1].end)
                /\ RLe(before[i].words[k - 1].start, before[i].words[k].start)
                /\ timed_lines[i].words[k].start
                      = RAdd(timed_lines[i].words[k - 1].end, R(2, 100))

-----------------------------------------------------------------------------
\* ProjectManager (backend/projects.py): the projects saved on disk.
\*
\* A directory is a function from the names of its files to what they hold,
\* and a folder of directories (self.projects_dir without its index file,
\* the upload folder of the jobs) is a function from the names of the
\* directories in it to these.  A file name is a record of the parts the
\* code tells apart (f.name.startswith(...), f.suffix); what a file holds is
\* a record.  projects.json is on its own in `index_file`.  A value that may
\* be None is None or Some(value).

Some(x) == <<x>>

\* The name prefix + rest + suffix of a file.
File(prefix, rest, suffix) == [prefix |-> prefix, rest |-> rest, suffix |-> suffix]
MetadataJson == File("metadata", "", ".json")
TimingJson == File("timing", "", ".json")
SettingsJson == File("settings", "", ".json")
WaveformJson == File("waveform", "", ".json")
LyricsTxt == File("lyrics", "", ".txt")

\* Path.exists() of a directory and of a file in it.
DirExists(folder, dir) == dir \in DOMAIN folder
FileExists(folder, dir, file) == dir \in DOMAIN folder /\ file \in DOMAIN folder[dir]
\* Path.mkdir(parents=True, exist_ok=True)
Mkdir(folder, dir) == IF dir \in DOMAIN folder THEN folder ELSE (dir :> <<>>) @@ folder
\* shutil.rmtree
Rmtree(folder, dir) == [d \in DOMAIN folder \ { dir } |-> folder[d]]
\* json.load of a file that may not be there: None when it is not.
LoadIfExists(folder, dir, file) ==
    IF FileExists(folder, dir, file) THEN Some(folder[dir][file]) ELSE None

\* Lines 141-165: the copy of the first file of the job directory whose name
\* starts with `prefix`, as [key |-> its name in the project], or no entry.
CopiedUpload(job, key, prefix) ==
    LET found == { f \in DOMAIN job : f.prefix = prefix }
    IN IF found = {} THEN <<>>
       ELSE LET f == CHOOSE x \in found : TRUE
            IN key :> [name |-> File(key, "", f.suffix), held |-> job[f]]

\* Lines 138-171: the files create_project copies, by their key in `files`.
CopiedUploads(job) ==
    CopiedUpload(job, "audio", "audio_")
        @@ CopiedUpload(job, "alignment_audio", "alignment_audio_")
        @@ CopiedUpload(job, "image", "image_")
        @@ (IF LyricsTxt \in DOMAIN job
            THEN "lyrics" :> [name |-> LyricsTxt, held |-> job[LyricsTxt]]
            ELSE <<>>)

\* A directory with the files of `written` (name and content) added.
RECURSIVE WithFiles(_, _)
WithFiles(dir, written) ==
    IF written = {} THEN dir
    ELSE LET w == CHOOSE x \in written : TRUE
         IN WithFiles((w.name :> w.held) @@ dir, written \ { w })

\* Lines 131-204 of create_project: the project directory and its files.
\* iterdir() of a job directory that is not there raises FileNotFoundError
\* (line 141), after the mkdir of line 133.
CreateFiles(folder, uploads, project_id, name, job_dir, timing, settings, waveform, now) ==
    IF ~DirExists(uploads, job_dir)
    THEN [projects_dir |-> Mkdir(folder, project_id), metadata |-> None,
          raised |-> "FileNotFoundError"]
    ELSE LET copied == CopiedUploads(uploads[job_dir])
             metadata ==
                [id |-> project_id, name |-> name, created_at |-> now,
                 updated_at |-> now, status |-> "in_progress",
                 files |-> [key \in DOMAIN copied |-> copied[key].name],
                 audio_duration |->
                    IF timing # None /\ "duration" \in DOMAIN timing[1]
                    THEN Some(timing[1].duration) ELSE None]
             written ==
                { copied[key] : key \in DOMAIN copied }
                    \cup { [name |-> MetadataJson, held |-> metadata] }
                    \cup (IF timing # None
                          THEN { [name |-> TimingJson, held |-> timing[1]] } ELSE {})
                    \cup (IF settings # None
                          THEN { [name |-> SettingsJson, held |-> settings[1]] } ELSE {})
                    \cup (IF waveform # None
                          THEN { [name |-> WaveformJson, held |-> waveform[1]] } ELSE {})
             made == Mkdir(folder, project_id)
         IN [projects_dir |-> [made EXCEPT ![project_id] = WithFiles(@, written)],
             metadata |-> Some(metadata), raised |-> ""]

\* Lines 208-214: the index with the new project's entry appended.
IndexWithProject(index, project_id, name, now) ==
    [index EXCEPT !.projects =
        Append(@, [id |-> project_id, name |-> name, created_at |-> now,
                   updated_at |-> now, status |-> "in_progress"])]

\* Lines 238-268 of update_project, the project being there: metadata.json
\* rewritten, timing.json and settings.json written when given.
UpdateFiles(folder, project_id, name, timing, settings, status, now) ==
    LET read == folder[project_id][MetadataJson]
        stamped == [read EXCEPT !.updated_at = now]
        named == IF name # None THEN [stamped EXCEPT !.name = name[1]] ELSE stamped
        metadata == IF status # None THEN [named EXCEPT !.status = status[1]] ELSE named
        timed == IF timing # None /\ "duration" \in DOMAIN timing[1]
                 THEN [metadata EXCEPT !.audio_duration = Some(timing[1].duration)]
                 ELSE metadata
        written ==
            { [name |-> MetadataJson, held |-> timed] }
                \cup (IF timing # None
                      THEN { [name |-> TimingJson, held |-> timing[1]] } ELSE {})
                \cup (IF settings # None
                      THEN { [name |-> SettingsJson, held |-> settings[1]] } ELSE {})
    IN [projects_dir |-> [folder EXCEPT ![project_id] = WithFiles(@, written)],
        metadata |-> timed]

\* Lines 272-279 with the status left out of the index.
IndexWithUpdateOfName(index, project_id, name, status, now) ==
    [index EXCEPT !.projects =
        [k \in DOMAIN @ |->
            IF @[k].id = project_id
               /\ \A k2 \in 1..(k - 1) : index.projects[k2].id # project_id
            THEN [@[k] EXCEPT !.updated_at = now,
                              !.name = IF name # None THEN name[1] ELSE @]
            ELSE @[k]]]

\* Lines 272-279: the first entry of the project brought up to date.
IndexWithUpdate(index, project_id, name, status, now) ==
    [index EXCEPT !.projects =
        [k \in DOMAIN @ |->
            IF @[k].id = project_id
               /\ \A k2 \in 1..(k - 1) : index.projects[k2].id # project_id
            THEN [@[k] EXCEPT !.updated_at = now,
                              !.name = IF name # None THEN name[1] ELSE @,
                              !.status = IF status # None THEN status[1] ELSE @]
            ELSE @[k]]]

\* Line 300: the index without the entries of the project.
IndexWithout(index, project_id) ==
    LET Other(p) == p.id # project_id
    IN [index EXCEPT !.projects = SelectSeq(@, Other)]

\* Lines 326-363 of open_project: the job directory made and the project's
\* files copied into it under the names the job expects.
OpenedJob(folder, uploads, project_id, job_dir) ==
    LET project == folder[project_id]
        files == project[MetadataJson].files
        Upload(key, prefix) ==
            IF key \in DOMAIN files /\ files[key] \in DOMAIN project
            THEN { [name |-> File(prefix, files[key].prefix, files[key].suffix),
                    held |-> project[files[key]]] }
            ELSE {}
        copied ==
            Upload("audio", "audio_") \cup Upload("alignment_audio", "alignment_audio_")
                \cup Upload("image", "image_")
                \cup (IF "lyrics" \in DOMAIN files /\ files["lyrics"] \in DOMAIN project
                      THEN { [name |-> LyricsTxt, held |-> project[files["lyrics"]]] }
                      ELSE {})
                \cup (IF TimingJson \in DOMAIN project
                      THEN { [name |-> TimingJson, held |-> project[TimingJson]] } ELSE {})
                \cup (IF WaveformJson \in DOMAIN project
                      THEN { [name |-> WaveformJson, held |-> project[WaveformJson]] }
                      ELSE {})
        made == Mkdir(uploads, job_dir)
    IN [made EXCEPT ![job_dir] = WithFiles(@, copied)]

\* Lines 366-385 of open_project: what the frontend gets.  A key the code
\* leaves out of the dict is None here.
OpenedResult(folder, project_id) ==
    [project_id |-> project_id,
     name |-> folder[project_id][MetadataJson].name,
     timing |-> LoadIfExists(folder, project_id, TimingJson),
     settings |-> LoadIfExists(folder, project_id, SettingsJson),
     waveform |-> LoadIfExists(folder, project_id, WaveformJson)]

\* The disk the ProjectManager works on: its projects directory, its index
\* file (None for no file, else what the file holds) and the upload folder
\* of the jobs.
Disk(folder, index, uploads) ==
    [projects_dir |-> folder, index_file |-> index, upload_folder |-> uploads]

\* What a call leaves: the disk, the value returned and the exception
\* raised ("" for none).
Outcome(disk, returned, raised) == [disk |-> disk, returned |-> returned, raised |-> raised]

\* Lines 29-38: the index a new ProjectManager writes.
EmptyIndex == [version |-> 1, projects |-> <<>>]

\* The name of the index file in the projects directory (line 31).
ProjectsJson == "projects.json"

\* What projects.json holds between the open(self.index_file, 'w') of
\* line 47, which empties it, and the json.dump of line 48.
Emptied == [bytes |-> ""]

\* Lines 40-43: the index read, or the exception open() or json.load raises.
_load_index(held) ==
    IF held = None THEN [index |-> None, raised |-> "FileNotFoundError"]
    ELSE IF held[1] = Emptied THEN [index |-> None, raised |-> "JSONDecodeError"]
    ELSE [index |-> held, raised |-> ""]

\* Inserts entry p behind the entries that do not sort after it.
RECURSIVE InsertByUpdate(_, _)
InsertByUpdate(sorted, p) ==
    IF sorted = <<>> THEN <<p>>
    ELSE IF Head(sorted).updated_at >= p.updated_at
    THEN <<Head(sorted)>> \o InsertByUpdate(Tail(sorted), p)
    ELSE <<p>> \o sorted

\* Line 65: the entries sorted by updated_at, newest first, equal ones in
\* the order they had.
RECURSIVE SortedByUpdate(_)
SortedByUpdate(projects) ==
    IF projects = <<>> THEN <<>>
    ELSE InsertByUpdate(SortedByUpdate(SubSeq(projects, 1, Len(projects) - 1)),
                        projects[Len(projects)])

list_projects(disk) ==
    LET read == _load_index(disk.index_file)
    IN IF read.raised # "" THEN Outcome(disk, None, read.raised)
       ELSE Outcome(disk, Some(SortedByUpdate(read.index[1].projects)), "")

get_project(disk, project_id) ==
    IF ~FileExists(disk.projects_dir, project_id, MetadataJson) THEN None
    ELSE Some([metadata |-> disk.projects_dir[project_id][MetadataJson],
               timing |-> LoadIfExists(disk.projects_dir, project_id, TimingJson),
               settings |-> LoadIfExists(disk.projects_dir, project_id, SettingsJson),
               waveform |-> LoadIfExists(disk.projects_dir, project_id, WaveformJson)])

\* create_project with the id that _generate_project_id drew and the time
\* datetime.utcnow() gave.
create_project(disk, project_id, name, job_dir, timing, settings, waveform, now) ==
    LET made == CreateFiles(disk.projects_dir, disk.upload_folder, project_id, name,
                            job_dir, timing, settings, waveform, now)
        left == [disk EXCEPT !.projects_dir = made.projects_dir]
        read == _load_index(disk.index_file)
    IN IF made.raised # "" THEN Outcome(left, None, made.raised)
       ELSE IF read.raised # "" THEN Outcome(left, None, read.raised)
       ELSE Outcome([left EXCEPT !.index_file =
                        Some(IndexWithProject(read.index[1], project_id, name, now))],
                    made.metadata, "")

update_project(disk, project_id, name, timing, settings, status, now) ==
    IF ~FileExists(disk.projects_dir, project_id, MetadataJson)
    THEN Outcome(disk, None, "")
    ELSE LET updated == UpdateFiles(disk.projects_dir, project_id, name, timing,
                                    settings, status, now)
             left == [disk EXCEPT !.projects_dir = updated.projects_dir]
             read == _load_index(disk.index_file)
         IN IF read.raised # "" THEN Outcome(left, None, read.raised)
            ELSE Outcome([left EXCEPT !.index_file =
                            Some(IndexWithUpdate(read.index[1], project_id, name,
                                                 status, now))],
                         Some(updated.metadata), "")

\* delete_project.  self.projects_dir / project_id (line 55) is the index
\* file when project_id is its name: it exists, and shutil.rmtree of a file
\* raises NotADirectoryError.
delete_project(disk, project_id) ==
    IF project_id = ProjectsJson
    THEN IF disk.index_file = None THEN Outcome(disk, Some(FALSE), "")
         ELSE Outcome(disk, None, "NotADirectoryError")
    ELSE IF ~DirExists(disk.projects_dir, project_id) THEN Outcome(disk, Some(FALSE), "")
    ELSE LET left == [disk EXCEPT !.projects_dir = Rmtree(@, project_id)]
             read == _load_index(disk.index_file)
         IN IF read.raised # "" THEN Outcome(left, None, read.raised)
            ELSE Outcome([left EXCEPT !.index_file =
                            Some(IndexWithout(read.index[1], project_id))],
                         Some(TRUE), "")

\* open_project; its last statement (line 388) is update_project(project_id).
open_project(disk, project_id, job_dir, now) ==
    IF ~FileExists(disk.projects_dir, project_id, MetadataJson)
    THEN Outcome(disk, None, "")
    ELSE LET opened == [disk EXCEPT
                           !.upload_folder = OpenedJob(disk.projects_dir, @,
                                                       project_id, job_dir)]
             given == OpenedResult(disk.projects_dir, project_id)
             updated == update_project(opened, project_id, None, None, None, None, now)
         IN IF updated.raised # "" THEN updated
            ELSE Outcome(updated.disk, Some(given), "")

-----------------------------------------------------------------------------
\* The ProjectManager called by one caller, one call at a time.

\* The disk as the variables hold it.
TheDisk == Disk(projects_dir, index_file, upload_folder)

\* The ids _generate_project_id can draw, the job directories and the values
\* the callers pass.
MaxClock == 2
ProjectIds == { "proj_1", "proj_2" }
\* The ids a caller passes: those of projects, and the name of a file that
\* is no project.
PassedIds == ProjectIds \cup { ProjectsJson }
JobDirs == { "job_1", "job_2" }
ProjectNames == { "n1" }
\* The keyword arguments of an update_project call: none (as open_project
\* calls it), a new name and status, a timing and settings.
GivenUpdates ==
    { [name |-> None, timing |-> None, settings |-> None, status |-> None],
      [name |-> Some("n2"), timing |-> None, settings |-> None,
       status |-> Some("completed")],
      [name |-> None, timing |-> Some([duration |-> 3]),
       settings |-> Some([font |-> "f"]), status |-> None] }
Uploaded ==
    File("audio_", "song", ".mp3") :> [bytes |-> "song"]
        @@ LyricsTxt :> [bytes |-> "words"]

Call(op, project_id, job_dir, outcome) ==
    [op |-> op, project_id |-> project_id, job_dir |-> job_dir,
     returned |-> outcome.returned, raised |-> outcome.raised]

\* datetime.utcnow(): not before the last time read; two reads can give the
\* same time.
Now == { t \in { clock, clock + 1 } : t <= MaxClock }

\* uuid4: an id no project directory and no index entry has.
Unused(folder, index) ==
    { id \in ProjectIds :
        /\ ~DirExists(folder, id)
        /\ _load_index(index).raised = ""
            => \A k \in DOMAIN index[1].projects : index[1].projects[k].id # id }

engineVars == <<timed_lines, duration, before, twin_lines, changed_line, lyrics_words,
               transcribed_words, similarity_threshold, alignments, backtracked,
               lyrics_lines, segments, line_timings, raw_lines, lyrics_text, result,
               arg_word1, arg_word2, similarity, saved, loaded>>

EngineIdle ==
    /\ duration = None
    /\ RepairIdle /\ DtwIdle /\ SegIdle /\ AlignIdle /\ SimIdle /\ JsonIdle

\* A new ProjectManager on an empty projects directory (lines 28-38), one
\* job uploaded.
InitProjects ==
    /\ pc = "start"
    /\ projects_dir = <<>>
    /\ index_file = Some(EmptyIndex)
    /\ upload_folder = "job_1" :> Uploaded
    /\ clock = 0
    /\ called = NoCall
    /\ ServerIdle
    /\ EngineIdle

\* The disk a call left.
Left(outcome) ==
    /\ projects_dir' = outcome.disk.projects_dir
    /\ index_file' = outcome.disk.index_file
    /\ upload_folder' = outcome.disk.upload_folder

CreateProject ==
    \E project_id \in Unused(projects_dir, index_file), name \in ProjectNames,
       job_dir \in JobDirs, now \in Now :
        LET outcome == create_project(TheDisk, project_id, name, job_dir, None,
                                      None, None, now)
        IN /\ Left(outcome)
           /\ clock' = now
           /\ called' = Call("create_project", project_id, job_dir, outcome)
           /\ pc' = "called"
           /\ UNCHANGED <<requests, engineVars>>

UpdateProject ==
    \E project_id \in PassedIds, given \in GivenUpdates, now \in Now :
        LET outcome == update_project(TheDisk, project_id, given.name, given.timing,
                                      given.settings, given.status, now)
        IN /\ Left(outcome)
           /\ clock' = IF FileExists(projects_dir, project_id, MetadataJson) THEN now ELSE clock
           /\ called' = Call("update_project", project_id, "", outcome)
           /\ pc' = "called"
           /\ UNCHANGED <<requests, engineVars>>

OpenProject ==
    \E project_id \in PassedIds, job_dir \in { "job_2" }, now \in Now :
        LET outcome == open_project(TheDisk, project_id, job_dir, now)
        IN /\ Left(outcome)
           /\ clock' = IF FileExists(projects_dir, project_id, MetadataJson) THEN now ELSE clock
           /\ called' = Call("open_project", project_id, job_dir, outcome)
           /\ pc' = "called"
           /\ UNCHANGED <<requests, engineVars>>

DeleteProject ==
    \E project_id \in PassedIds :
        LET outcome == delete_project(TheDisk, project_id)
        IN /\ Left(outcome)
           /\ called' = Call("delete_project", project_id, "", outcome)
           /\ pc' = "called"
           /\ UNCHANGED <<clock, requests, engineVars>>

GetProject ==
    \E project_id \in PassedIds :
        /\ called' = Call("get_project", project_id, "",
                          Outcome(TheDisk, get_project(TheDisk, project_id), ""))
        /\ pc' = "called"
        /\ UNCHANGED <<diskVars, clock, requests, engineVars>>

ListProjects ==
    /\ called' = Call("list_projects", "", "", list_projects(TheDisk))
    /\ pc' = "called"
    /\ UNCHANGED <<diskVars, clock, requests, engineVars>>

NextProjects ==
    \/ CreateProject
    \/ UpdateProject
    \/ OpenProject
    \/ DeleteProject
    \/ GetProject
    \/ ListProjects

SpecProjects == InitProjects /\ [][NextProjects]_vars

-----------------------------------------------------------------------------
\* C23.  A call for a project id that does not exist (the notion of
\* get_project: no metadata.json under that id) gives None from get_project,
\* update_project and open_project and False from delete_project, and leaves
\* the projects index, every project directory and the job directories as
\* they were.
MissingProjectLeftAlone ==
    [][(/\ called'.op \in { "get_project", "update_project", "open_project",
                            "delete_project" }
        /\ ~FileExists(projects_dir, called'.project_id, MetadataJson))
       => /\ called'.raised = ""
          /\ called'.returned =
                (IF called'.op = "delete_project" THEN Some(FALSE) ELSE None)
          /\ UNCHANGED diskVars]_vars

\* The index lists, each once, the project directories of `folder` that hold
\* metadata.json, each with the name, status and updated_at of that file.
IndexAgrees(folder, index) ==
    LET projects == index.projects
    IN /\ \A j, k \in DOMAIN projects : projects[j].id = projects[k].id => j = k
       /\ { projects[k].id : k \in DOMAIN projects }
            = { id \in DOMAIN folder : MetadataJson \in DOMAIN folder[id] }
       /\ \A k \in DOMAIN projects :
            LET metadata == folder[projects[k].id][MetadataJson]
            IN /\ projects[k].name = metadata.name
               /\ projects[k].status = metadata.status
               /\ projects[k].updated_at = metadata.updated_at

-----------------------------------------------------------------------------
\* The ProjectManager of the server (api_server.py line 74: one instance for
\* all requests), called from the threads of ServerThread (desktop_app.py
\* lines 110-119: make_server(..., threaded=True)).  No lock is taken in
\* projects.py nor in the routes: the steps of two calls interleave.  A call
\* goes through four steps: its work on the project's files, the read of the
\* index (_load_index), the open(..., 'w') of _save_index, which empties the
\* file, and its json.dump.  The work on the project's own files is one
\* step here.

Threads == { "thread_1", "thread_2" }

\* A thread of the server with no request yet.
Waiting ==
    [op |-> "", project_id |-> "", at |-> "waiting", now |-> 0, metadata |-> None,
     index |-> None, returned |-> None, raised |-> ""]

\* The request of a route of api_server.py: create_project (lines 590-642),
\* update_project (654-680) or delete_project (683-689).
Request(op, project_id) == [Waiting EXCEPT !.op = op, !.project_id = project_id,
                                           !.at = "received"]

\* The ids of the create_project calls being handled.
Drawn == { requests[t].project_id :
            t \in { u \in Threads : requests[u].op = "create_project" } }

\* Two threads waiting, on a new projects directory or on one that holds a
\* project.
InitServer ==
    /\ pc = "start"
    /\ \E disk \in
            { Disk(<<>>, Some(EmptyIndex), "job_1" :> Uploaded),
              create_project(Disk(<<>>, Some(EmptyIndex), "job_1" :> Uploaded),
                             "proj_1", "n1", "job_1", None, None, None, 0).disk } :
          /\ projects_dir = disk.projects_dir
          /\ index_file = disk.index_file
          /\ upload_folder = disk.upload_folder
    /\ clock = 0
    /\ called = NoCall
    /\ requests = [t \in Threads |-> Waiting]
    /\ EngineIdle

\* A request reaches thread t.
Receive(t) ==
    /\ requests[t].at = "waiting"
    /\ \E op \in { "create_project", "update_project", "delete_project" },
          project_id \in ProjectIds :
          /\ op = "create_project"
                => project_id \in Unused(projects_dir, index_file) \ Drawn
          /\ requests' = [requests EXCEPT ![t] = Request(op, project_id)]
    /\ pc' = "serving"
    /\ UNCHANGED <<diskVars, clock, called, engineVars>>

\* The call's work on the project's files: lines 131-204 of create_project,
\* lines 232-268 of update_project, lines 290-296 of delete_project.
ProjectFiles(t) ==
    LET request == requests[t]
    IN /\ request.at = "received"
       /\ \/ /\ request.op = "create_project"
             /\ \E now \in Now :
                  LET made == CreateFiles(projects_dir, upload_folder,
                                          request.project_id, "n1", "job_1",
                                          None, None, None, now)
                  IN /\ projects_dir' = made.projects_dir
                     /\ clock' = now
                     /\ requests' = [requests EXCEPT ![t].at = "files", ![t].now = now,
                                                     ![t].metadata = made.metadata]
          \/ /\ request.op = "update_project"
             /\ FileExists(projects_dir, request.project_id, MetadataJson)
             /\ \E now \in Now :
                  LET updated == UpdateFiles(projects_dir, request.project_id,
                                             Some("n2"), None, None,
                                             Some("completed"), now)
                  IN /\ projects_dir' = updated.projects_dir
                     /\ clock' = now
                     /\ requests' = [requests EXCEPT ![t].at = "files", ![t].now = now,
                                                     ![t].metadata = Some(updated.metadata)]
          \/ /\ request.op = "update_project"
             /\ ~FileExists(projects_dir, request.project_id, MetadataJson)
             /\ requests' = [requests EXCEPT ![t].at = "done"]
             /\ UNCHANGED <<projects_dir, clock>>
          \/ /\ request.op = "delete_project"
             /\ DirExists(projects_dir, request.project_id)
             /\ projects_dir' = Rmtree(projects_dir, request.project_id)
             /\ requests' = [requests EXCEPT ![t].at = "files"]
             /\ UNCHANGED clock
          \/ /\ request.op = "delete_project"
             /\ ~DirExists(projects_dir, request.project_id)
             /\ requests' = [requests EXCEPT ![t].at = "done",
                                             ![t].returned = Some(FALSE)]
             /\ UNCHANGED <<projects_dir, clock>>
       /\ UNCHANGED <<index_file, upload_folder, called, pc, engineVars>>

\* index = self._load_index() and the change the call makes to it in memory
\* (lines 207-214, 271-279, 299-300).
LoadIndex(t) ==
    LET request == requests[t]
        read == _load_index(index_file)
        index ==
            IF request.op = "create_project"
            THEN IndexWithProject(read.index[1], request.project_id, "n1", request.now)
            ELSE IF request.op = "update_project"
            THEN IndexWithUpdate(read.index[1], request.project_id, Some("n2"),
                                 Some("completed"), request.now)
            ELSE IndexWithout(read.index[1], request.project_id)
    IN /\ request.at = "files"
       /\ requests' =
            IF read.raised # ""
            THEN [requests EXCEPT ![t].at = "done", ![t].raised = read.raised]
            ELSE [requests EXCEPT ![t].at = "loaded", ![t].index = Some(index)]
       /\ UNCHANGED <<diskVars, clock, called, pc, engineVars>>

\* Line 47 of _save_index: open(self.index_file, 'w').
OpenIndex(t) ==
    /\ requests[t].at = "loaded"
    /\ index_file' = Some(Emptied)
    /\ requests' = [requests EXCEPT ![t].at = "opened"]
    /\ UNCHANGED <<projects_dir, upload_folder, clock, called, pc, engineVars>>

\* Line 48 of _save_index: json.dump(index, f), and the call's return.
DumpIndex(t) ==
    LET request == requests[t]
    IN /\ request.at = "opened"
       /\ index_file' = request.index
       /\ requests' =
            [requests EXCEPT
                ![t].at = "done",
                ![t].returned =
                    IF request.op = "delete_project" THEN Some(TRUE)
                    ELSE request.metadata]
       /\ UNCHANGED <<projects_dir, upload_folder, clock, called, pc, engineVars>>

NextServer ==
    \E t \in Threads :
        \/ Receive(t)
        \/ ProjectFiles(t)
        \/ LoadIndex(t)
        \/ OpenIndex(t)
        \/ DumpIndex(t)

SpecServer == InitServer /\ [][NextServer]_vars

-----------------------------------------------------------------------------
\* C30.  When the threads of the server have handled two requests that
\* change the index at the same time, projects.json reflects both: every
\* project on disk is listed once, no deleted project is listed, and every
\* entry has the name, status and updated_at its project's metadata.json has.
BothRequestsInIndex ==
    (\A t \in Threads : requests[t].at = "done")
        => /\ index_file # None
           /\ index_file[1] # Emptied
           /\ IndexAgrees(projects_dir, index_file[1])

====
